---------------------------- MODULE Spec2Model ----------------------------
(***************************************************************************)
(* Match lifecycle engine of the Checkmate chess backend                   *)
(* (src/src/chess_bp.py, src/src/models.py, src/src/auth.py,               *)
(* src/src/user.py).                                                       *)
(*                                                                         *)
(* The persistent state is the four tables User, Session, Player and Game. *)
(* A request handler is an operator from a snapshot of the tables and the  *)
(* request's inputs to a response and a write set (SQLAlchemy's unit of    *)
(* work: the rows added and the attributes whose value changed).  The      *)
(* specification Spec runs every handler as one step; SpecConc splits the  *)
(* handlers that touch a match into the read of the snapshot and the       *)
(* commit of the write set, so that requests interleave the way the plain  *)
(* (non-locking) SELECTs of the code allow.                                *)
(*                                                                         *)
(* Time is counted in whole seconds.  The rules engine (python-chess) is   *)
(* an external collaborator: a position is the list of plies played, a SAN *)
(* string is one of three classes (an ordinary legal move, a move that     *)
(* checkmates, a move that ends the game drawn) or illegal, and the        *)
(* outcome of a position is decided by the class of its last ply.          *)
(***************************************************************************)
EXTENDS Integers, Sequences, FiniteSets, TLC

\* ------------------------------------------------------------ bounds
MaxGames == 1
MaxSessions == 2
MaxTime == 4
MaxPlies == 4
MaxCountupPlies == 2

\* ------------------------------------------------------------ constants
\* SQL NULL / Python None for integer-valued columns (ids, timestamps, flags).
NULL == -1
\* User.score default.
DefaultScore == 400

WHITE == TRUE
BLACK == FALSE

UserIds == {1, 2}
\* The User rows the specifications follow.
MaxUsers == 3
TimeLimitChoices == {NULL, 2}
SanInputs == {"move", "mate", "draw", "illegal"}

VARIABLES
    now,        \* wall clock (arrow.now()), in seconds
    User,       \* table User:    user_id -> [username, score, password, email]
    Session,    \* table Session: session_id -> [user_id]
    sessionSeq, \* AUTO_INCREMENT of Session.session_id: ids handed out so far
    Player,     \* table Player:  set of rows, primary key (game_id, is_white)
    Game,       \* table Game:    game_id -> row
    txns,       \* requests that have read their snapshot and not yet committed
    response,   \* the response of the last request that finished
    accepted,   \* the plies that responses have reported as played
    observe,    \* whether the specification records responses (set by Init)
    bound       \* how far the specification follows the program (set by Init)

vars == <<now, User, Session, sessionSeq, Player, Game, txns, response, accepted, observe, bound>>

\* The tables as one value: what a transaction reads.
Tables == [User |-> User, Session |-> Session, Player |-> Player, Game |-> Game]

\* ------------------------------------------------------------ helpers
Bit(b) == IF b THEN 1 ELSE 0

Max(a, b) == IF a >= b THEN a ELSE b

GameColumns == {"game", "time_started", "time_ended", "white_won", "timer", "timeLimit"}

\* ------------------------------------------------ move record codec
set_clock_whole_minutes(seconds) ==
    LET s == Max(0, seconds)
    IN  <<s \div 3600, (s % 3600) \div 60, 0>>

\* chess.pgn.GameNode.set_clock: the annotation [%clk h:mm:ss] of a number of
\* seconds, negative values clamped to 0.
set_clock(seconds) ==
    LET s == Max(0, seconds)
    IN  <<s \div 3600, (s % 3600) \div 60, (s % 3600) % 60>>

clock_plus_one(clk) == clk[1] * 3600 + clk[2] * 60 + clk[3] + 1

\* chess.pgn.GameNode.clock: the seconds an annotation stands for.
clock(clk) == clk[1] * 3600 + clk[2] * 60 + clk[3]

\* chess.pgn.StringExporter(headers, variations, comments): the stored string of
\* a game, its headers and its movetext with one clock comment per ply.
StringExporter(chessgame) ==
    [headers  |-> chessgame.headers,
     movetext |-> [i \in 1..Len(chessgame.mainline) |->
                      [san |-> chessgame.mainline[i].san,
                       clk |-> set_clock(chessgame.mainline[i].clock)]]]

\* chess.pgn.read_game: the game a stored string decodes to.
read_game(pgn) ==
    [headers  |-> pgn.headers,
     mainline |-> [i \in 1..Len(pgn.movetext) |->
                      [san   |-> pgn.movetext[i].san,
                       clock |-> clock(pgn.movetext[i].clk)]]]

\* ------------------------------------------------ rules engine
board_turn_white(chessgame) == TRUE

\* chessgame.end().board().turn: white moves after an even number of plies.
board_turn(chessgame) == (Len(chessgame.mainline) % 2 = 0)

\* The side that played ply i.
PlyColor(i) == (i % 2 = 1)

\* chessgame.end().board().outcome(): "none" while the game goes on, else the
\* winner flag of the terminal position (1 white, 0 black, NULL drawn).
IsTerminal(chessgame) ==
    /\ Len(chessgame.mainline) > 0
    /\ chessgame.mainline[Len(chessgame.mainline)].san \in {"mate", "draw"}

outcome_winner(chessgame) ==
    LET n == Len(chessgame.mainline)
    IN  IF chessgame.mainline[n].san = "mate" THEN Bit(PlyColor(n)) ELSE NULL

outcome_result(chessgame) ==
    LET w == outcome_winner(chessgame)
    IN  IF w = 1 THEN "1-0" ELSE IF w = 0 THEN "0-1" ELSE "1/2-1/2"

\* chessboard.parse_san: a legal move of the position, or ValueError.
parse_san_ok(chessgame, san) ==
    /\ ~IsTerminal(chessgame)
    /\ san \in {"move", "mate", "draw"}

\* chess.pgn.Game.ply() of the root node of a game without a FEN header, and
\* GameNode.turn() computed from it: the side to move AT THE ROOT, white.
Game_ply(chessgame) == 0
Game_turn(chessgame) == (Game_ply(chessgame) % 2 = 0)


\* ------------------------------------------------ rows
\* Game.game before the match starts (the column is nullable).
NoRecord == [null |-> TRUE]

PlayerOf(players, game_id, is_white) ==
    CHOOSE p \in players : p.game_id = game_id /\ p.is_white = is_white

HasPlayer(players, game_id, is_white) ==
    \E p \in players : p.game_id = game_id /\ p.is_white = is_white

PlayersOf(players, game_id) == {p \in players : p.game_id = game_id}

\* ------------------------------------------------ clock reconciliation
times_unsigned(chessgame, timeLimit) ==
    [i \in 1..Len(chessgame.mainline) |-> chessgame.mainline[i].clock]

\* times = [node.clock() - timeLimit for node in game.mainline()]
times(chessgame, timeLimit) ==
    [i \in 1..Len(chessgame.mainline) |-> chessgame.mainline[i].clock - timeLimit]

\* The loop over times: the thinking time of one colour, the sum of
\* last_time - time over that colour's plies, last_time starting at timeLimit.
RECURSIVE time_moving_of(_, _, _, _)
time_moving_of(ts, timeLimit, i, is_white) ==
    IF i > Len(ts) THEN 0
    ELSE (IF PlyColor(i) = is_white
          THEN (IF i = 1 THEN timeLimit ELSE ts[i - 1]) - ts[i]
          ELSE 0)
         + time_moving_of(ts, timeLimit, i + 1, is_white)

\* The remaining time of both sides, [white, black], as Game.hospice and
\* make_move compute it: timeLimit minus the side's thinking time, and the time
\* not yet in any ply taken from the side that game.turn() names.
remaining(chessgame, timeLimit, seconds_since_start) ==
    LET ts          == times(chessgame, timeLimit)
        white_moved == time_moving_of(ts, timeLimit, 1, WHITE)
        black_moved == time_moving_of(ts, timeLimit, 1, BLACK)
        time_moving == white_moved + black_moved
        in_flight   == seconds_since_start - time_moving
    IN  [white |-> (timeLimit - white_moved)
                   - (IF Game_turn(chessgame) = WHITE THEN in_flight ELSE 0),
         black |-> (timeLimit - black_moved)
                   - (IF Game_turn(chessgame) = BLACK THEN in_flight ELSE 0)]

\* ------------------------------------------------ Game.hospice
counts_down_always(game) == TRUE

\* game.timer.timer_name == "Countdown": the match is played against the clock.
counts_down(game) == game.timer = "Countdown"

rated_user_linked(player) ==
    IF player.user_id # NULL THEN player.user_id
    ELSE IF player.session_id \in DOMAIN Session THEN Session[player.session_id].user_id
    ELSE NULL

\* winner.user, loser.user: the User a seat is rated as, None for a seat that
\* is bound to a Session.
rated_user(player) == player.user_id

apply_scores_never(users, players, game_id, old_white_won, white_won) == users

\* The rating change of Game.hospice: taken when the winner flag differs from
\* the one the invocation started with.
apply_scores(users, players, game_id, old_white_won, white_won) ==
    IF white_won = old_white_won THEN users
    ELSE LET white  == PlayerOf(players, game_id, WHITE)
             black  == PlayerOf(players, game_id, BLACK)
             winner == IF white_won = 1 THEN white ELSE black
             loser  == IF white_won = 1 THEN black ELSE white
             won    == IF rated_user(winner) # NULL
                       THEN [users EXCEPT ![rated_user(winner)].score = @ + 1]
                       ELSE users
         IN  IF rated_user(loser) # NULL
             THEN [won EXCEPT ![rated_user(loser)].score = @ - 1]
             ELSE won

conclude_time_black_first(self, chessgame, tnow) ==
    LET r == remaining(chessgame, self.timeLimit, tnow - self.time_started)
    IN  IF r.black <= 0
        THEN [self |-> [self EXCEPT !.time_ended = tnow, !.white_won = 1],
              game |-> [chessgame EXCEPT !.headers.Result = "1-0",
                                         !.headers.Termination = "time forefit"]]
        ELSE IF r.white <= 0
        THEN [self |-> [self EXCEPT !.time_ended = tnow, !.white_won = 0],
              game |-> [chessgame EXCEPT !.headers.Result = "0-1",
                                         !.headers.Termination = "time forefit"]]
        ELSE [self |-> self, game |-> chessgame]

\* The end of the match by time: the Countdown branch.
conclude_time(self, chessgame, tnow) ==
    LET r == remaining(chessgame, self.timeLimit, tnow - self.time_started)
    IN  IF r.white <= 0
        THEN [self |-> [self EXCEPT !.time_ended = tnow, !.white_won = 0],
              game |-> [chessgame EXCEPT !.headers.Result = "0-1",
                                         !.headers.Termination = "time forefit"]]
        ELSE IF r.black <= 0
        THEN [self |-> [self EXCEPT !.time_ended = tnow, !.white_won = 1],
              game |-> [chessgame EXCEPT !.headers.Result = "1-0",
                                         !.headers.Termination = "time forefit"]]
        ELSE [self |-> self, game |-> chessgame]

conclude_outcome_after_clock(self, chessgame, tnow) ==
    IF /\ self.timer = "Countdown"
       /\ self.timeLimit # NULL
       /\ LET r == remaining(chessgame, self.timeLimit, tnow - self.time_started)
          IN  r.white <= 0 \/ r.black <= 0
    THEN conclude_time(self, chessgame, tnow)
    ELSE [self |-> [self EXCEPT !.time_ended = tnow,
                                !.white_won = outcome_winner(chessgame)],
          game |-> [chessgame EXCEPT !.headers.Result = outcome_result(chessgame),
                                     !.headers.Termination = "normal"]]

\* The end of the match by the rules engine: the outcome branch.
conclude_outcome(self, chessgame, tnow) ==
    [self |-> [self EXCEPT !.time_ended = tnow,
                           !.white_won = outcome_winner(chessgame)],
     game |-> [chessgame EXCEPT !.headers.Result = outcome_result(chessgame),
                                !.headers.Termination = "normal"]]

\* Game.hospice on a started match whose record decoded to chessgame.  fresh:
\* the record was decoded by hospice itself (no chessgame argument).  The result
\* is the row, the User table and whether the call raised (a Countdown match
\* without timeLimit: None in the arithmetic).
hospice_started(self, game_id, players, users, chessgame, fresh, force_save, tnow) ==
    IF ~IsTerminal(chessgame) /\ counts_down(self) /\ self.timeLimit = NULL
    THEN [raised |-> TRUE, self |-> self, User |-> users]
    ELSE
    LET c == IF IsTerminal(chessgame) THEN conclude_outcome(self, chessgame, tnow)
             ELSE IF counts_down(self) THEN conclude_time(self, chessgame, tnow)
             ELSE [self |-> self, game |-> chessgame]
        saved == IF fresh \/ force_save
                 THEN [c.self EXCEPT !.game = StringExporter(c.game)]
                 ELSE c.self
    IN  [raised |-> FALSE,
         self   |-> saved,
         User   |-> apply_scores(users, players, game_id,
                                 self.white_won, c.self.white_won)]

hospice_unstarted_too(self, game_id, players, users, tnow) ==
    IF self.time_started = NULL
    THEN [raised |-> FALSE, self |-> [self EXCEPT !.time_ended = tnow], User |-> users]
    ELSE hospice_started(self, game_id, players, users,
                         read_game(self.game), TRUE, FALSE, tnow)

\* Game.hospice() as the reads call it: nothing before the match has started,
\* else the stored record is decoded and the match closed if it should be.
hospice(self, game_id, players, users, tnow) ==
    IF self.time_started = NULL
    THEN [raised |-> FALSE, self |-> self, User |-> users]
    ELSE hospice_started(self, game_id, players, users,
                         read_game(self.game), TRUE, FALSE, tnow)


\* ------------------------------------------------ identity
\* authenticate_request: the (user, session) of a credential.  cred is 0 (no or
\* an unusable cookie) or the id of the Session whose token the cookie carries;
\* a token that matches no Session row resolves to no session.
authenticate_request(db, cred) ==
    IF cred = 0 \/ cred \notin DOMAIN db.Session
    THEN [user |-> NULL, session |-> NULL]
    ELSE [user |-> db.Session[cred].user_id, session |-> cred]

\* get_player_team: the colour (1 white, 0 black) of the first seat of the match,
\* in the order the seats are listed, that the session or the user holds; NULL
\* when they hold none.  first_white: the white seat is listed first.
SeatMatches_user_first(p, session, user) ==
    IF user # NULL THEN p.user_id = user ELSE p.session_id = session

SeatMatches(p, session, user) ==
    \/ (session # NULL /\ p.session_id = session)
    \/ (user # NULL /\ p.user_id = user)

get_player_team_none(db, game_id, session, user, first_white) == NULL

get_player_team(db, game_id, session, user, first_white) ==
    LET mine == {p \in PlayersOf(db.Player, game_id) : SeatMatches(p, session, user)}
    IN  IF mine = {} THEN NULL
        ELSE IF \E p \in mine : p.is_white = first_white THEN Bit(first_white)
        ELSE Bit(~first_white)

\* ------------------------------------------------ write sets
\* What a handler hands to the commit: the response, the Game row it changed
\* (game_id 0: none), the User table as the handler left it and the Player rows
\* it added.
Result(status, message, game_id, self, users, players) ==
    [status |-> status, message |-> message, game_id |-> game_id,
     self |-> self, User |-> users, players |-> players]

Reject(db, status, message) ==
    Result(status, message, 0, NoRecord, db.User, {})

changed_columns_all(old, new) == [c \in GameColumns |-> new[c]]

\* The columns of a Game row whose value the handler changed.
changed_columns(old, new) ==
    [c \in {k \in GameColumns : new[k] # old[k]} |-> new[c]]

\* The users whose score the handler changed, with the score it computed.
changed_scores(old, new) ==
    [u \in {k \in DOMAIN old : new[k].score # old[k].score} |-> new[u].score]

\* The unit of work of a request that read snapshot db and ended with result r.
write_set(db, r) ==
    [game_id |-> r.game_id,
     cols    |-> IF r.game_id = 0 THEN <<>>
                 ELSE changed_columns(db.Game[r.game_id], r.self),
     scores  |-> changed_scores(db.User, r.User),
     players |-> r.players]

integrity_error_never(db, w) == FALSE

\* The INSERT of a Player row whose primary key (game_id, is_white) exists
\* fails (IntegrityError) and the transaction is rolled back.
integrity_error(db, w) ==
    \E p \in w.players : HasPlayer(db.Player, p.game_id, p.is_white)

\* The tables after the commit of write set w: UPDATE of the changed columns
\* only, INSERT of the new rows.
commit(db, w) ==
    [User    |-> [u \in DOMAIN db.User |->
                     IF u \in DOMAIN w.scores
                     THEN [db.User[u] EXCEPT !.score = w.scores[u]]
                     ELSE db.User[u]],
     Session |-> db.Session,
     Player  |-> db.Player \cup w.players,
     Game    |-> [g \in DOMAIN db.Game |->
                     IF g = w.game_id
                     THEN [c \in GameColumns |->
                              IF c \in DOMAIN w.cols THEN w.cols[c]
                              ELSE db.Game[g][c]]
                     ELSE db.Game[g]]]

\* ------------------------------------------------ enter_game
username_of(db, p) ==
    IF p.user_id # NULL THEN db.User[p.user_id].username ELSE "Anonymous"

start_record_anonymous(db, white, black) ==
    [headers  |-> [White |-> "Anonymous", Black |-> "Anonymous",
                   Result |-> "*", Termination |-> "unterminated"],
     movetext |-> <<>>]

\* The record of a match that starts: chess.pgn.Game(headers) exported.
start_record(db, white, black) ==
    StringExporter([headers  |-> [White       |-> username_of(db, white),
                                  Black       |-> username_of(db, black),
                                  Result      |-> "*",
                                  Termination |-> "unterminated"],
                    mainline |-> <<>>])

match_starts_never(seats) == FALSE

\* The seat just taken fills the match: len(game.players) == 2.
match_starts(seats) == Cardinality(seats) = 2

colour_refused_never(taken, wantsWhite) == FALSE

\* The colour asked for is taken and was asked for explicitly.
colour_refused(taken, wantsWhite) == taken /\ wantsWhite # NULL

\* The colour of the seat a caller without a preference gets: the other one if
\* the one the random bit chose is taken (wants_white = not wants_white).
seat_colour(asked, taken) == IF taken THEN ~asked ELSE asked

\* enter_game.  wantsWhite: NULL, 0 or 1; random_bit: random.getrandbits(1),
\* read when wantsWhite is NULL.
enter_game(db, user, session, gameid, wantsWhite, random_bit, tnow) ==
    IF gameid \notin DOMAIN db.Game
    THEN Reject(db, 404, "game does not exist")
    ELSE IF get_player_team(db, gameid, session, user, TRUE) # NULL
    THEN Reject(db, 401, "you are already in this game")
    ELSE IF Cardinality(PlayersOf(db.Player, gameid)) >= 2
    THEN Reject(db, 401, "game cannot be joined")
    ELSE
    LET asked == IF wantsWhite = NULL THEN random_bit ELSE (wantsWhite = 1)
        taken == HasPlayer(db.Player, gameid, asked)
    IN  IF colour_refused(taken, wantsWhite)
        THEN Reject(db, 401, "colour is not available")
        ELSE
        LET wants_white == seat_colour(asked, taken)
            player == [game_id    |-> gameid,
                       is_white   |-> wants_white,
                       user_id    |-> user,
                       session_id |-> IF db.Session[session].user_id = NULL
                                      THEN session ELSE NULL]
            seats  == PlayersOf(db.Player, gameid) \cup {player}
            game   == db.Game[gameid]
        IN  IF match_starts(seats)
            THEN Result(204, "", gameid,
                        [game EXCEPT
                            !.time_started = tnow,
                            !.game = start_record(db, PlayerOf(seats, gameid, WHITE),
                                                      PlayerOf(seats, gameid, BLACK))],
                        db.User, {player})
            ELSE Result(204, "", gameid, game, db.User, {player})

create_game_rows_both(user, session, game_id, creatorStartsWhite, countingDown, timeLimit) ==
    [player |-> [game_id    |-> game_id,
                 is_white   |-> creatorStartsWhite,
                 user_id    |-> user,
                 session_id |-> session],
     game   |-> [game         |-> NoRecord,
                 time_started |-> NULL,
                 time_ended   |-> NULL,
                 white_won    |-> NULL,
                 timer        |-> IF countingDown THEN "Countdown" ELSE "Countup",
                 timeLimit    |-> timeLimit]]

\* ------------------------------------------------ create_game
\* The rows create_game adds: the match and the creator's seat.
create_game_rows(user, session, game_id, creatorStartsWhite, countingDown, timeLimit) ==
    [player |-> [game_id    |-> game_id,
                 is_white   |-> creatorStartsWhite,
                 user_id    |-> user,
                 session_id |-> IF user = NULL THEN session ELSE NULL],
     game   |-> [game         |-> NoRecord,
                 time_started |-> NULL,
                 time_ended   |-> NULL,
                 white_won    |-> NULL,
                 timer        |-> IF countingDown THEN "Countdown" ELSE "Countup",
                 timeLimit    |-> timeLimit]]

\* ------------------------------------------------ get_game
get_game(db, user, session, gameid, tnow) ==
    IF gameid \notin DOMAIN db.Game
    THEN Reject(db, 404, "game does not exist")
    ELSE LET h == hospice(db.Game[gameid], gameid, db.Player, db.User, tnow)
         IN  IF h.raised
             THEN Reject(db, 500, "Internal Server Error")
             ELSE Result(200, "game", gameid, h.self, h.User, {})

\* ------------------------------------------------ make_move
is_over_never(game) == FALSE

\* The match has ended: game.time_ended is not None.
is_over(game) == game.time_ended # NULL

stamped_ply_counting_up(game, san, seconds_since_start) ==
    [san |-> san, clock |-> clock(set_clock(seconds_since_start))]

\* The ply make_move appends: the move and the clock it is stamped with.
stamped_ply(game, san, seconds_since_start) ==
    [san   |-> san,
     clock |-> clock(set_clock(IF counts_down(game)
                               THEN (game.timeLimit * 2) - seconds_since_start
                               ELSE seconds_since_start))]

not_your_turn_never(playeriswhite, chessgame) == FALSE

\* playeriswhite != chessgame.end().board().turn: the caller's colour is not
\* the one to move.
not_your_turn(playeriswhite, chessgame) == playeriswhite # Bit(board_turn(chessgame))

make_move(db, user, session, gameid, san, first_white, tnow) ==
    IF gameid \notin DOMAIN db.Game
    THEN Reject(db, 404, "game does not exist")
    ELSE
    LET game == db.Game[gameid] IN
    IF game.time_started = NULL
    THEN Reject(db, 400, "game has not started")
    ELSE IF is_over(game)
    THEN Reject(db, 400, "game is over")
    ELSE
    LET playeriswhite == get_player_team(db, gameid, session, user, first_white)
        chessgame     == read_game(game.game)
        seconds_since_start == tnow - game.time_started
    IN
    IF playeriswhite = NULL
    THEN Reject(db, 401, "you are not playing this game")
    ELSE IF not_your_turn(playeriswhite, chessgame)
    THEN Reject(db, 400, "not your turn")
    ELSE IF ~parse_san_ok(chessgame, san)
    THEN Reject(db, 400, "invalid move")
    ELSE IF counts_down(game) /\ game.timeLimit = NULL
    THEN Reject(db, 500, "countdown games should have a time limit")
    ELSE
    LET r == IF counts_down(game)
             THEN remaining(chessgame, game.timeLimit, seconds_since_start)
             ELSE [white |-> 1, black |-> 1]
    IN
    IF counts_down(game) /\ (r.white <= 0 \/ r.black <= 0)
    THEN LET h == hospice(game, gameid, db.Player, db.User, tnow)
         IN  Result(200,
                    IF r.white <= 0 THEN "white ran out of time" ELSE "black ran out of time",
                    gameid, h.self, h.User, {})
    ELSE
    LET moved == [chessgame EXCEPT
                     !.mainline = Append(@, stamped_ply(game, san, seconds_since_start))]
        h == hospice_started(game, gameid, db.Player, db.User, moved, FALSE, TRUE, tnow)
    IN  Result(200, "moved", gameid, h.self, h.User, {})


\* ------------------------------------------------ login, logout
Usernames == <<"alice", "bob">>

\* do_login after the captcha: the Session row as the handler leaves it.
\* password_ok: the stored password equals the one given.
do_login(db, session, username, password_ok) ==
    IF db.Session[session].user_id # NULL
    THEN [accept |-> FALSE, message |-> "You are already logged in!", Session |-> db.Session]
    ELSE IF ~\E u \in DOMAIN db.User : db.User[u].username = username
    THEN [accept |-> FALSE, message |-> "Invalid username or password.", Session |-> db.Session]
    ELSE IF ~password_ok
    THEN [accept |-> FALSE, message |-> "Invalid username or password.", Session |-> db.Session]
    ELSE LET user == CHOOSE u \in DOMAIN db.User : db.User[u].username = username
         IN  [accept |-> TRUE, message |-> "Signed you in! Redirecting...",
              Session |-> [db.Session EXCEPT ![session].user_id = user]]

do_logout_deletes(db, session) ==
    [s \in DOMAIN db.Session \ {session} |-> db.Session[s]]

\* do_logout of a logged-in session: the Session table as the handler leaves it.
do_logout(db, session) ==
    IF {p \in db.Player : p.session_id = session} = {}
    THEN [s \in DOMAIN db.Session \ {session} |-> db.Session[s]]
    ELSE [db.Session EXCEPT ![session].user_id = NULL]

\* Address(addr_spec=email) raises InvalidHeaderDefect for an address it
\* cannot parse.  The empty string stands for no address (email is NULL).
valid_email(email) == email # "not an address"

\* user_update: what the handler answers.  An address that does not parse
\* rolls the transaction back.
user_update_status(password_ok, new_email) ==
    IF ~password_ok THEN [status |-> 401, message |-> "Incorrect password."]
    ELSE IF new_email # "" /\ ~valid_email(new_email)
    THEN [status |-> 400, message |-> "Invalid email."]
    ELSE [status |-> 200, message |-> "Success!"]

\* user_update with a new password: user.sessions = [session] unlinks every
\* other Session of the User; the Session table as the handler leaves it.
\* new_password, new_email: the empty string when the request gives none.
user_update(db, session, password_ok, new_password, new_email) ==
    IF user_update_status(password_ok, new_email).status = 200 /\ new_password # ""
    THEN [s \in DOMAIN db.Session |->
             IF s # session /\ db.Session[s].user_id = db.Session[session].user_id
             THEN [db.Session[s] EXCEPT !.user_id = NULL]
             ELSE db.Session[s]]
    ELSE db.Session

\* The User row as user_update leaves it.
user_update_row(user, password_ok, new_password, new_email) ==
    IF user_update_status(password_ok, new_email).status # 200 THEN user
    ELSE [user EXCEPT !.password = IF new_password # "" THEN new_password ELSE @,
                      !.email    = IF new_email # "" THEN new_email ELSE @]

\* ------------------------------------------------ signup
username_taken_never(users, username) == FALSE

\* The unique index on User.username: the INSERT of a second row with the
\* username fails (IntegrityError) at the commit.
username_taken(users, username) ==
    \E u \in DOMAIN users : users[u].username = username

\* new_user after the captcha: the answer and the User table as the handler
\* leaves it.  The new row gets the next user_id and the default score.
new_user(db, session, username, password, email) ==
    IF db.Session[session].user_id # NULL
    THEN [status |-> 200, accept |-> FALSE,
          message |-> "Sign out before creating a new account.", User |-> db.User]
    ELSE IF email # "" /\ ~valid_email(email)
    THEN [status |-> 400, accept |-> FALSE,
          message |-> "An invalid email was provided.", User |-> db.User]
    ELSE IF username_taken(db.User, username)
    THEN [status |-> 400, accept |-> FALSE,
          message |-> "An account with this username already exists or you have provided invalid information.",
          User |-> db.User]
    ELSE LET user_id == Cardinality(DOMAIN db.User) + 1
         IN  [status |-> 200, accept |-> TRUE,
              message |-> "Please log into your new account.",
              User |-> [u \in DOMAIN db.User \cup {user_id} |->
                           IF u = user_id
                           THEN [username |-> username, score |-> DefaultScore,
                                 password |-> password, email |-> email]
                           ELSE db.User[u]]]

\* ------------------------------------------------ the cookie
\* The cookie .CHECKMATESECRET of a request: absent, not a JWT ("malformed"),
\* a JWT whose signature is not the server's ("forged") or a JWT the server
\* signed, which carries the token of the Session it was made for and the
\* expiry it was given (NULL: none).
NoCookie == [kind |-> "absent", session |-> 0, expires |-> NULL]

\* check_token: the payload of the cookie, or None.
NoToken == [valid |-> FALSE, session |-> 0, expires |-> NULL]

check_token(cookie) ==
    IF cookie.kind = "signed"
    THEN [valid |-> TRUE, session |-> cookie.session, expires |-> cookie.expires]
    ELSE NoToken

credential_late(cookie, tnow) ==
    LET token == check_token(cookie)
    IN  IF ~token.valid THEN 0
        ELSE IF token.expires # NULL /\ token.expires # 0 /\ token.expires < tnow THEN 0
        ELSE token.session

\* The part of authenticate_request before the query: the session token the
\* lookup is made with, 0 when the function returns (None, None) before it.
credential(cookie, tnow) ==
    LET token == check_token(cookie)
    IN  IF ~token.valid THEN 0
        ELSE IF token.expires # NULL /\ token.expires # 0 /\ token.expires <= tnow THEN 0
        ELSE token.session

\* ------------------------------------------------ requests
\* The credentials a request can carry: none, or the cookie of a session id that
\* was handed out (its Session row may be gone since).
Creds == 0..sessionSeq

\* has_session(create=True): a request without a session gets a new Session row,
\* committed before the handler runs.
Minted(cred) == authenticate_request(Tables, cred).session = NULL

CanHaveSession(cred) == Minted(cred) => sessionSeq < bound.sessions

CallerSession(cred) == IF Minted(cred) THEN sessionSeq + 1 ELSE cred

CallerUser(cred) == authenticate_request(Tables, cred).user

SessionAfter(cred) ==
    IF Minted(cred)
    THEN [s \in DOMAIN Session \cup {sessionSeq + 1} |->
             IF s = sessionSeq + 1 THEN [user_id |-> NULL] ELSE Session[s]]
    ELSE Session

\* The tables the handler of a has_session(create=True) request reads.
TablesFor(cred) == [Tables EXCEPT !.Session = SessionAfter(cred)]

NoResponse ==
    [op |-> "none", gameid |-> 0, caller |-> 0, wantsWhite |-> NULL,
     status |-> 0, message |-> "", games |-> {}]

\* The response of a request as the specification records it.  caller: the
\* Session the request ran as, 0 when it had none; games: what the body of a
\* read says of each match it lists; wantsWhite: the colour an enter_game asked
\* for.
Answer(op, gameid, caller, status, message, games) ==
    IF observe
    THEN [op |-> op, gameid |-> gameid, caller |-> caller, wantsWhite |-> NULL,
          status |-> status, message |-> message, games |-> games]
    ELSE NoResponse

AnswerTo(wantsWhite, answer) ==
    IF observe THEN [answer EXCEPT !.wantsWhite = wantsWhite] ELSE answer

Plain(op, gameid, caller, status, message) ==
    Answer(op, gameid, caller, status, message, {})

\* Game.to_dict: what a response says of the lifecycle of a match.
to_dict(game_id, self) ==
    [game_id      |-> game_id,
     time_started |-> self.time_started,
     time_ended   |-> self.time_ended,
     white_won    |-> self.white_won]

\* The matches the body of a get_game response lists.
reported_games(op, gameid, r) ==
    IF op = "get_game" /\ r.status = 200 THEN {to_dict(gameid, r.self)} ELSE {}

\* The ply a "moved" response reports: its place in the record and its move.
reported_ply(gameid, r) ==
    IF observe /\ r.message = "moved"
    THEN {[gameid |-> gameid,
           ply    |-> Len(r.self.game.movetext),
           san    |-> r.self.game.movetext[Len(r.self.game.movetext)].san]}
    ELSE {}

\* A handler that ran from snapshot to commit without another request between.
Served(op, gameid, cred, wantsWhite, db, r) ==
    LET w     == write_set(db, r)
        after == commit(db, w)
    IN  /\ Session' = db.Session
        /\ sessionSeq' = IF Minted(cred) THEN sessionSeq + 1 ELSE sessionSeq
        /\ User' = after.User
        /\ Player' = after.Player
        /\ Game' = after.Game
        /\ response' = AnswerTo(wantsWhite,
                                Answer(op, gameid, CallerSession(cred), r.status,
                                       r.message, reported_games(op, gameid, r)))
        /\ accepted' = accepted \cup reported_ply(gameid, r)
        /\ UNCHANGED <<now, txns, observe, bound>>

\* ------------------------------------------------ actions
Tick ==
    /\ now < bound.seconds
    /\ \E g \in DOMAIN Game : Game[g].time_started # NULL
    /\ now' = now + 1
    /\ UNCHANGED <<User, Session, sessionSeq, Player, Game, txns, response, accepted, observe, bound>>

CreateGame(cred, creatorStartsWhite, countingDown, timeLimit) ==
    /\ CanHaveSession(cred)
    /\ Cardinality(DOMAIN Game) < bound.games
    /\ LET game_id == Cardinality(DOMAIN Game) + 1
           rows    == create_game_rows(CallerUser(cred), CallerSession(cred), game_id,
                                       creatorStartsWhite, countingDown, timeLimit)
       IN  /\ Game' = [g \in DOMAIN Game \cup {game_id} |->
                          IF g = game_id THEN rows.game ELSE Game[g]]
           /\ Player' = Player \cup {rows.player}
    /\ Session' = SessionAfter(cred)
    /\ sessionSeq' = IF Minted(cred) THEN sessionSeq + 1 ELSE sessionSeq
    /\ response' = Plain("create_game", Cardinality(DOMAIN Game) + 1, CallerSession(cred),
                       201, "game_id")
    /\ UNCHANGED <<now, User, txns, accepted, observe, bound>>

EnterGame(cred, gameid, wantsWhite, random_bit) ==
    /\ CanHaveSession(cred)
    /\ Served("enter_game", gameid, cred, wantsWhite, TablesFor(cred),
              enter_game(TablesFor(cred), CallerUser(cred), CallerSession(cred),
                         gameid, wantsWhite, random_bit, now))

GetGame(cred, gameid) ==
    /\ CanHaveSession(cred)
    /\ Served("get_game", gameid, cred, NULL, TablesFor(cred),
              get_game(TablesFor(cred), CallerUser(cred), CallerSession(cred), gameid, now))

\* A move that would make the record longer than the specification follows is
\* left out.
WithinPlies(r) ==
    r.message = "moved" =>
        Len(r.self.game.movetext) <= (IF r.self.timer = "Countdown" THEN bound.plies
                                      ELSE bound.countup_plies)

MakeMove(cred, gameid, san, first_white) ==
    IF Minted(cred)
    THEN /\ response' = Plain("make_move", gameid, 0, 401, "No session?")
         /\ UNCHANGED <<now, User, Session, sessionSeq, Player, Game, txns, accepted, observe, bound>>
    ELSE LET r == make_move(Tables, CallerUser(cred), cred, gameid, san, first_white, now)
         IN  /\ WithinPlies(r)
             /\ Served("make_move", gameid, cred, NULL, Tables, r)

\* process_game of get_games over the matches g, g+1, ...: Game.hospice on each
\* row the query loaded, the rows and users as the calls leave them in memory.
RECURSIVE process_game(_, _, _, _)
process_game(g, st, players, tnow) ==
    IF g \notin DOMAIN st.Game \/ st.raised THEN st
    ELSE LET h == hospice(st.Game[g], g, players, st.User, tnow)
         IN  process_game(g + 1,
                          [raised |-> h.raised,
                           Game   |-> [st.Game EXCEPT ![g] = h.self],
                           User   |-> h.User],
                          players, tnow)

\* get_games: Game.hospice runs on the rows after the transaction of the query
\* has ended, and the response lists the rows as hospice left them.  Nothing
\* commits what hospice changed when the caller came with a session; for a
\* caller whose session has_session has just made, the wrapper opens one more
\* transaction on the same session after the handler (auth.py 144-145), and
\* whether its commit flushes the changed rows is left open (flushed).
GetGames(cred, flushed) ==
    /\ CanHaveSession(cred)
    /\ Session' = SessionAfter(cred)
    /\ sessionSeq' = IF Minted(cred) THEN sessionSeq + 1 ELSE sessionSeq
    /\ LET st == process_game(1, [raised |-> FALSE, Game |-> Game, User |-> User],
                              Player, now)
       IN  IF st.raised
           THEN /\ response' = Plain("get_games", 0, CallerSession(cred),
                                     500, "Internal Server Error")
                /\ UNCHANGED <<User, Game>>
           ELSE /\ response' = Answer("get_games", 0, CallerSession(cred), 200, "games",
                                      {to_dict(g, st.Game[g]) : g \in DOMAIN Game})
                /\ User' = IF flushed THEN st.User ELSE User
                /\ Game' = IF flushed THEN st.Game ELSE Game
    /\ UNCHANGED <<now, Player, txns, accepted, observe, bound>>

Login(cred, username, password_ok) ==
    /\ CanHaveSession(cred)
    /\ LET l == do_login(TablesFor(cred), CallerSession(cred), username, password_ok)
       IN  /\ Session' = l.Session
           /\ response' = Plain("do_login", 0, CallerSession(cred), 200, l.message)
    /\ sessionSeq' = IF Minted(cred) THEN sessionSeq + 1 ELSE sessionSeq
    /\ UNCHANGED <<now, User, Player, Game, txns, accepted, observe, bound>>

Logout(cred) ==
    /\ IF CallerUser(cred) = NULL
       THEN /\ response' = Plain("do_logout", 0, IF Minted(cred) THEN 0 ELSE cred, 200, "")
            /\ Session' = Session
       ELSE /\ response' = Plain("do_logout", 0, cred, 200, "success")
            /\ Session' = do_logout(Tables, cred)
    /\ UNCHANGED <<now, User, sessionSeq, Player, Game, txns, accepted, observe, bound>>

\* user_update behind is_logged_in(): the old password is tested before
\* anything is changed.
UserUpdate(cred, password_ok, new_password, new_email) ==
    /\ IF CallerUser(cred) = NULL
       THEN /\ response' = Plain("user_update", 0, IF Minted(cred) THEN 0 ELSE cred,
                                 401, "You are not logged in.")
            /\ Session' = Session
            /\ User' = User
       ELSE /\ response' = Plain("user_update", 0, cred,
                                 user_update_status(password_ok, new_email).status,
                                 user_update_status(password_ok, new_email).message)
            /\ Session' = user_update(Tables, cred, password_ok, new_password, new_email)
            /\ User' = [User EXCEPT ![CallerUser(cred)] =
                            user_update_row(@, password_ok, new_password, new_email)]
    /\ UNCHANGED <<now, sessionSeq, Player, Game, txns, accepted, observe, bound>>

\* new_user behind has_session(): the Session of a request that had none is
\* kept whatever the answer.
Signup(cred, username, password, email) ==
    /\ CanHaveSession(cred)
    /\ LET r == new_user(TablesFor(cred), CallerSession(cred), username, password, email)
       IN  /\ r.accept => Cardinality(DOMAIN User) < MaxUsers
           /\ User' = r.User
           /\ response' = Plain("new_user", 0, CallerSession(cred), r.status, r.message)
    /\ Session' = SessionAfter(cred)
    /\ sessionSeq' = IF Minted(cred) THEN sessionSeq + 1 ELSE sessionSeq
    /\ UNCHANGED <<now, Player, Game, txns, accepted, observe, bound>>

GameIds == 1..MaxGames

\* ------------------------------------------------ inputs
\* The kinds of match create_game is asked for: Countup without a limit,
\* Countdown with one, and Countdown without (timeLimit is optional).
GameKinds == {<<FALSE, NULL>>, <<TRUE, NULL>>} \cup {<<TRUE, t>> : t \in TimeLimitChoices}

\* random.getrandbits(1) is read only when no colour was asked for.
RandomBits(wantsWhite) == IF wantsWhite = NULL THEN BOOLEAN ELSE {TRUE}

\* The order of game.players decides get_player_team only for a caller that two
\* seats match.
SeatOrders(cred, gameid) ==
    IF Cardinality({p \in PlayersOf(Player, gameid) :
                       SeatMatches(p, authenticate_request(Tables, cred).session,
                                      authenticate_request(Tables, cred).user)}) > 1
    THEN BOOLEAN ELSE {TRUE}

\* Login attempts: a right password, a wrong one, an unknown username.
LoginInputs == {<<"alice", TRUE>>, <<"bob", TRUE>>, <<"alice", FALSE>>, <<"nobody", TRUE>>}

\* ------------------------------------------------ specifications
InitTables ==
    /\ now = 0
    /\ User = [u \in UserIds |-> [username |-> Usernames[u], score |-> DefaultScore,
                                  password |-> "ha", email |-> "email@example.com"]]
    /\ Session = <<>>
    /\ sessionSeq = 0
    /\ Player = {}
    /\ Game = <<>>
    /\ txns = {}
    /\ response = NoResponse
    /\ accepted = {}

Requests ==
    \/ \E cred \in Creds, w \in BOOLEAN, k \in GameKinds :
          CreateGame(cred, w, k[1], k[2])
    \/ \E cred \in Creds, g \in GameIds, w \in {NULL, 0, 1} :
          \E b \in RandomBits(w) : EnterGame(cred, g, w, b)
    \/ \E cred \in Creds, g \in GameIds : GetGame(cred, g)
    \/ \E cred \in Creds, g \in GameIds, san \in SanInputs :
          \E f \in SeatOrders(cred, g) : MakeMove(cred, g, san, f)
    \/ \E cred \in Creds :
          \E flushed \in (IF Minted(cred) THEN BOOLEAN ELSE {FALSE}) :
              GetGames(cred, flushed)

\* Spec: the life of a match.  Every request runs from its read to its commit
\* in one step; sessions log in at any time; responses are not recorded.
Bounds ==
    [sessions |-> MaxSessions, seconds |-> MaxTime,
     plies |-> MaxPlies, countup_plies |-> MaxCountupPlies,
     games |-> MaxGames]

Init == InitTables /\ observe = FALSE /\ bound = Bounds

Next ==
    \/ Tick
    \/ Requests
    \/ \E cred \in Creds, l \in LoginInputs : Login(cred, l[1], l[2])

Spec == Init /\ [][Next]_vars

\* SpecObserved: the same requests made by guests, with the response of each
\* request recorded.
InitObserved == InitTables /\ observe = TRUE /\ bound = Bounds

NextObserved ==
    \/ Tick
    \/ Requests

SpecObserved == InitObserved /\ [][NextObserved]_vars

\* SpecIdentity: sessions that log in and out around their seats.
NextIdentity ==
    \/ Tick
    \/ Requests
    \/ \E cred \in Creds, l \in LoginInputs : Login(cred, l[1], l[2])
    \/ \E cred \in Creds : Logout(cred)

SpecIdentity == Init /\ [][NextIdentity]_vars

\* ------------------------------------------------ interleaved requests
\* SpecConc: the requests on a match made by guests, each split into the read
\* of its snapshot (the handler runs on what it read) and the commit of its
\* unit of work.  Nothing in the handlers locks what they read, so any number
\* of requests, here up to MaxTxns, are between the two at once.
MaxTxns == 2
MaxConcSessions == 3
MaxConcTime == 1
MaxConcPlies == 1

ConcBounds ==
    [sessions |-> MaxConcSessions, seconds |-> MaxConcTime,
     plies |-> MaxConcPlies, countup_plies |-> MaxConcPlies,
     games |-> MaxGames]

\* The matches the interleavings are followed on: Countup, and Countdown with
\* a limit that runs out within the time followed.
ConcGameKinds == {<<FALSE, NULL>>, <<TRUE, MaxConcTime>>}

\* The moves submitted while requests interleave: an ordinary one and one that
\* ends the match.
ConcSanInputs == {"move", "mate"}

InitConc == InitTables /\ observe = TRUE /\ bound = ConcBounds

\* A request between its read and its commit.
Txn(op, gameid, cred, wantsWhite, db, r) ==
    [op         |-> op,
     gameid     |-> gameid,
     caller     |-> CallerSession(cred),
     wantsWhite |-> wantsWhite,
     w          |-> write_set(db, r),
     status     |-> r.status,
     message    |-> r.message,
     games      |-> reported_games(op, gameid, r),
     plies      |-> reported_ply(gameid, r)]

\* The unit of work is empty: the commit writes nothing.
nothing_to_flush(w) ==
    /\ w.players = {}
    /\ DOMAIN w.cols = {}
    /\ DOMAIN w.scores = {}

\* The handler of a request runs on the snapshot db and ends with result r.  A
\* request that has nothing to flush is answered at once; one that has stays in
\* flight until its commit.
Begin(op, gameid, cred, wantsWhite, db, r) ==
    LET t == Txn(op, gameid, cred, wantsWhite, db, r)
    IN  /\ Session' = db.Session
        /\ sessionSeq' = IF Minted(cred) THEN sessionSeq + 1 ELSE sessionSeq
        /\ IF nothing_to_flush(t.w)
           THEN /\ response' = AnswerTo(wantsWhite,
                                        Answer(op, gameid, t.caller, r.status,
                                               r.message, t.games))
                /\ txns' = txns
           ELSE /\ Cardinality(txns) < MaxTxns
                /\ t \notin txns
                /\ txns' = txns \cup {t}
                /\ response' = response
        /\ UNCHANGED <<now, User, Player, Game, accepted, observe, bound>>

BeginEnterGame(cred, gameid, wantsWhite, random_bit) ==
    /\ CanHaveSession(cred)
    /\ Begin("enter_game", gameid, cred, wantsWhite, TablesFor(cred),
             enter_game(TablesFor(cred), CallerUser(cred), CallerSession(cred),
                        gameid, wantsWhite, random_bit, now))

BeginGetGame(cred, gameid) ==
    /\ CanHaveSession(cred)
    /\ Begin("get_game", gameid, cred, NULL, TablesFor(cred),
             get_game(TablesFor(cred), CallerUser(cred), CallerSession(cred), gameid, now))

BeginMakeMove(cred, gameid, san, first_white) ==
    IF Minted(cred)
    THEN /\ response' = Plain("make_move", gameid, 0, 401, "No session?")
         /\ UNCHANGED <<now, User, Session, sessionSeq, Player, Game, txns, accepted, observe, bound>>
    ELSE LET r == make_move(Tables, CallerUser(cred), cred, gameid, san, first_white, now)
         IN  /\ WithinPlies(r)
             /\ Begin("make_move", gameid, cred, NULL, Tables, r)

\* The end of the transaction of request t: the flush of its unit of work on the
\* tables as they are now, and the commit; an IntegrityError of the flush rolls
\* the transaction back and the request is answered with a server error.
Commit(t) ==
    /\ t \in txns
    /\ txns' = txns \ {t}
    /\ IF integrity_error(Tables, t.w)
       THEN /\ response' = AnswerTo(t.wantsWhite,
                                    Plain(t.op, t.gameid, t.caller,
                                          500, "Internal Server Error"))
            /\ UNCHANGED <<User, Player, Game, accepted>>
       ELSE /\ User' = commit(Tables, t.w).User
            /\ Player' = commit(Tables, t.w).Player
            /\ Game' = commit(Tables, t.w).Game
            /\ response' = AnswerTo(t.wantsWhite,
                                    Answer(t.op, t.gameid, t.caller, t.status,
                                           t.message, t.games))
            /\ accepted' = accepted \cup t.plies
    /\ UNCHANGED <<now, Session, sessionSeq, observe, bound>>

NextConc ==
    \/ Tick
    \/ \E cred \in Creds, w \in BOOLEAN, k \in ConcGameKinds :
          CreateGame(cred, w, k[1], k[2])
    \/ \E cred \in Creds, g \in GameIds, w \in {NULL, 0, 1} :
          \E b \in RandomBits(w) : BeginEnterGame(cred, g, w, b)
    \/ \E cred \in Creds, g \in GameIds : BeginGetGame(cred, g)
    \/ \E cred \in Creds, g \in GameIds, san \in ConcSanInputs :
          \E f \in SeatOrders(cred, g) : BeginMakeMove(cred, g, san, f)
    \/ \E t \in txns : Commit(t)

SpecConc == InitConc /\ [][NextConc]_vars


\* ------------------------------------------------ entry protocol
\* SpecSeats: who may take a seat.  Up to MaxSeatSessions sessions that log in
\* and out create a match and ask to enter it; every request runs as one step
\* and its response is recorded.  No move is made and no time passes.
MaxSeatSessions == 3

SeatBounds ==
    [sessions |-> MaxSeatSessions, seconds |-> 0, plies |-> 0, countup_plies |-> 0,
     games |-> MaxGames]

InitSeats == InitTables /\ observe = TRUE /\ bound = SeatBounds

NextSeats ==
    \/ \E cred \in Creds, w \in BOOLEAN, k \in ConcGameKinds :
          CreateGame(cred, w, k[1], k[2])
    \/ \E cred \in Creds, g \in GameIds, w \in {NULL, 0, 1} :
          \E b \in RandomBits(w) : EnterGame(cred, g, w, b)
    \/ \E cred \in Creds, l \in LoginInputs : Login(cred, l[1], l[2])
    \/ \E cred \in Creds : Logout(cred)

SpecSeats == InitSeats /\ [][NextSeats]_vars

\* ------------------------------------------------ matches without a clock
\* SpecCountup: Countup matches, created with or without a timeLimit (the
\* column is stored whatever the timer), played and read by guests while time
\* passes; the response of each request is recorded.
CountupKinds == {<<FALSE, t>> : t \in TimeLimitChoices}

NextCountup ==
    \/ Tick
    \/ \E cred \in Creds, w \in BOOLEAN, k \in CountupKinds :
          CreateGame(cred, w, k[1], k[2])
    \/ \E cred \in Creds, g \in GameIds, w \in {NULL, 0, 1} :
          \E b \in RandomBits(w) : EnterGame(cred, g, w, b)
    \/ \E cred \in Creds, g \in GameIds : GetGame(cred, g)
    \/ \E cred \in Creds, g \in GameIds, san \in SanInputs :
          \E f \in SeatOrders(cred, g) : MakeMove(cred, g, san, f)
    \/ \E cred \in Creds :
          \E flushed \in (IF Minted(cred) THEN BOOLEAN ELSE {FALSE}) :
              GetGames(cred, flushed)

SpecCountup == InitObserved /\ [][NextCountup]_vars

\* ------------------------------------------------ reads before the start
\* SpecLobby: matches that wait for their second seat, and get it, while their
\* creators log in, read them and time passes; no move is made.  The response
\* of each request is recorded.
MaxLobbyTime == 2

LobbyBounds ==
    [sessions |-> MaxSessions, seconds |-> MaxLobbyTime, plies |-> 0, countup_plies |-> 0,
     games |-> MaxGames]

InitLobby == InitTables /\ observe = TRUE /\ bound = LobbyBounds

\* Time passes, whether or not a match has started.
Wait ==
    /\ now < bound.seconds
    /\ now' = now + 1
    /\ UNCHANGED <<User, Session, sessionSeq, Player, Game, txns, response, accepted, observe, bound>>

NextLobby ==
    \/ Wait
    \/ \E cred \in Creds, w \in BOOLEAN, k \in GameKinds :
          CreateGame(cred, w, k[1], k[2])
    \/ \E cred \in Creds, g \in GameIds, w \in {NULL, 0, 1} :
          \E b \in RandomBits(w) : EnterGame(cred, g, w, b)
    \/ \E cred \in Creds, g \in GameIds : GetGame(cred, g)
    \/ \E cred \in Creds :
          \E flushed \in (IF Minted(cred) THEN BOOLEAN ELSE {FALSE}) :
              GetGames(cred, flushed)
    \/ \E cred \in Creds, l \in LoginInputs : Login(cred, l[1], l[2])

SpecLobby == InitLobby /\ [][NextLobby]_vars

\* ------------------------------------------------ long matches
\* SpecRecord: what is written into the record.  Guests play Countup matches
\* and Countdown matches whose limit leaves room for plies made after more
\* than timeLimit seconds, whose stored offset is negative; requests run one at
\* a time and their responses are recorded.
MaxRecordTime == 4
MaxRecordPlies == 3
RecordTimeLimit == 3

RecordBounds ==
    [sessions |-> MaxSessions, seconds |-> MaxRecordTime,
     plies |-> MaxRecordPlies, countup_plies |-> MaxCountupPlies,
     games |-> MaxGames]

RecordKinds == {<<FALSE, NULL>>, <<TRUE, RecordTimeLimit>>}

InitRecord == InitTables /\ observe = TRUE /\ bound = RecordBounds

NextRecord ==
    \/ Tick
    \/ \E cred \in Creds, w \in BOOLEAN, k \in RecordKinds :
          CreateGame(cred, w, k[1], k[2])
    \/ \E cred \in Creds, g \in GameIds, w \in {NULL, 0, 1} :
          \E b \in RandomBits(w) : EnterGame(cred, g, w, b)
    \/ \E cred \in Creds, g \in GameIds : GetGame(cred, g)
    \/ \E cred \in Creds, g \in GameIds, san \in SanInputs :
          \E f \in SeatOrders(cred, g) : MakeMove(cred, g, san, f)
    \/ \E cred \in Creds :
          \E flushed \in (IF Minted(cred) THEN BOOLEAN ELSE {FALSE}) :
              GetGames(cred, flushed)

SpecRecord == InitRecord /\ [][NextRecord]_vars

\* ------------------------------------------------ whose move it is
\* SpecTurns: who may move.  Up to MaxTurnSessions sessions, guests or logged
\* in, seat themselves and submit moves, legal and not, in turn and out of
\* turn, for matches they play and matches they do not; every request runs as
\* one step at the time of the start and its response is recorded.
MaxTurnSessions == 3
MaxTurnPlies == 2

TurnBounds ==
    [sessions |-> MaxTurnSessions, seconds |-> 0,
     plies |-> MaxTurnPlies, countup_plies |-> MaxTurnPlies,
     games |-> MaxGames]

InitTurns == InitTables /\ observe = TRUE /\ bound = TurnBounds

NextTurns ==
    \/ \E cred \in Creds, w \in BOOLEAN, k \in ConcGameKinds :
          CreateGame(cred, w, k[1], k[2])
    \/ \E cred \in Creds, g \in GameIds, w \in {NULL, 0, 1} :
          \E b \in RandomBits(w) : EnterGame(cred, g, w, b)
    \/ \E cred \in Creds, g \in GameIds, san \in SanInputs :
          \E f \in SeatOrders(cred, g) : MakeMove(cred, g, san, f)
    \/ \E cred \in Creds : Login(cred, "alice", TRUE)

SpecTurns == InitTurns /\ [][NextTurns]_vars

\* ------------------------------------------------ accounts and seats
\* SpecAccounts: sessions that take seats as guests and as users, log in and
\* out and change the password around them and play their matches to the end.
\* Time stands still; the response of each request is recorded.
MaxAccountSessions == 2

MaxAccountPlies == 2

AccountBounds ==
    [sessions |-> MaxAccountSessions, seconds |-> 0,
     plies |-> MaxAccountPlies, countup_plies |-> MaxAccountPlies,
     games |-> MaxGames]

InitAccounts == InitTables /\ observe = TRUE /\ bound = AccountBounds

NextAccounts ==
    \/ \E cred \in Creds, w \in BOOLEAN, k \in ConcGameKinds :
          CreateGame(cred, w, k[1], k[2])
    \/ \E cred \in Creds, g \in GameIds, w \in {NULL, 0, 1} :
          \E b \in RandomBits(w) : EnterGame(cred, g, w, b)
    \/ \E cred \in Creds, g \in GameIds, san \in SanInputs :
          \E f \in SeatOrders(cred, g) : MakeMove(cred, g, san, f)
    \/ \E cred \in Creds, l \in LoginInputs : Login(cred, l[1], l[2])
    \/ \E cred \in Creds : Logout(cred)
    \/ \E cred \in Creds, ok \in BOOLEAN, new \in {"", "ha"} : UserUpdate(cred, ok, new, "")

SpecAccounts == InitAccounts /\ [][NextAccounts]_vars

\* ------------------------------------------------ signup
\* SpecSignup: accounts are made, with usernames that are free and that are
\* taken, by guests and by logged-in sessions; the accounts log in and out
\* and change their password and address.  The response of each request is
\* recorded.
SignupBounds ==
    [sessions |-> MaxSessions, seconds |-> 0, plies |-> 0, countup_plies |-> 0,
     games |-> MaxGames]

SignupNames == {"alice", "carol"}

Passwords == {"ha", "pw"}

Emails == {"", "carol@example.com", "not an address"}

SignupLogins == {<<"alice", TRUE>>, <<"carol", TRUE>>, <<"carol", FALSE>>}

InitSignup == InitTables /\ observe = TRUE /\ bound = SignupBounds

NextSignup ==
    \/ \E cred \in Creds, n \in SignupNames, pw \in Passwords, e \in Emails :
          Signup(cred, n, pw, e)
    \/ \E cred \in Creds, l \in SignupLogins : Login(cred, l[1], l[2])
    \/ \E cred \in Creds : Logout(cred)
    \/ \E cred \in Creds, ok \in BOOLEAN, pw \in {""} \cup Passwords, e \in Emails :
          UserUpdate(cred, ok, pw, e)

SpecSignup == InitSignup /\ [][NextSignup]_vars

\* ------------------------------------------------ two matches at once
\* SpecRatings: two Countup matches between accounts, the moves on them made
\* by requests that interleave: each reads its snapshot, and its unit of work
\* is flushed at its commit.  Seats are taken and accounts logged in one
\* request at a time; responses are not recorded.
MaxRatedGames == 2

RatingBounds ==
    [sessions |-> MaxSessions, seconds |-> 0, plies |-> 1, countup_plies |-> 1,
     games |-> MaxRatedGames]

RatedGameIds == 1..MaxRatedGames

RatedLogins == {<<"alice", TRUE>>, <<"bob", TRUE>>}

InitRatings == InitTables /\ observe = FALSE /\ bound = RatingBounds

NextRatings ==
    \/ \E cred \in Creds, l \in RatedLogins : Login(cred, l[1], l[2])
    \/ \E cred \in Creds, w \in BOOLEAN : CreateGame(cred, w, FALSE, NULL)
    \/ \E cred \in Creds, g \in RatedGameIds, w \in {0, 1} : EnterGame(cred, g, w, TRUE)
    \/ \E cred \in Creds, g \in RatedGameIds :
          \E f \in SeatOrders(cred, g) : BeginMakeMove(cred, g, "mate", f)
    \/ \E t \in txns : Commit(t)

SpecRatings == InitRatings /\ [][NextRatings]_vars

\* ------------------------------------------------ both clocks at zero
\* SpecTie: Countdown matches between guests with a limit of no time at all,
\* and of one second, read and moved on while time passes.  The response of
\* each request is recorded.
MaxTieTime == 2

MaxTiePlies == 2

TieBounds ==
    [sessions |-> MaxSessions, seconds |-> MaxTieTime,
     plies |-> MaxTiePlies, countup_plies |-> 0,
     games |-> MaxGames]

\* timeLimit is any unsigned integer, zero included.
TieKinds == {<<TRUE, 0>>, <<TRUE, 1>>}

InitTie == InitTables /\ observe = TRUE /\ bound = TieBounds

NextTie ==
    \/ Tick
    \/ \E cred \in Creds, w \in BOOLEAN, k \in TieKinds :
          CreateGame(cred, w, k[1], k[2])
    \/ \E cred \in Creds, g \in GameIds, w \in {NULL, 0, 1} :
          \E b \in RandomBits(w) : EnterGame(cred, g, w, b)
    \/ \E cred \in Creds, g \in GameIds : GetGame(cred, g)
    \/ \E cred \in Creds, g \in GameIds, san \in SanInputs :
          \E f \in SeatOrders(cred, g) : MakeMove(cred, g, san, f)

SpecTie == InitTie /\ [][NextTie]_vars

\* ------------------------------------------------ a clock without a timer
\* SpecForfeit: Countdown matches between guests, read and moved on while time
\* passes, with the response of each request recorded.  No process of the
\* server looks at a match between requests (server.py registers handlers
\* only), so a match changes in a request or not at all.
MaxForfeitTime == 4

MaxForfeitPlies == 3

ForfeitBounds ==
    [sessions |-> MaxSessions, seconds |-> MaxForfeitTime,
     plies |-> MaxForfeitPlies, countup_plies |-> 0,
     games |-> MaxGames]

ForfeitKinds == {<<TRUE, 1>>, <<TRUE, 2>>}

InitForfeit == InitTables /\ observe = TRUE /\ bound = ForfeitBounds

NextForfeit ==
    \/ Tick
    \/ \E cred \in Creds, w \in BOOLEAN, k \in ForfeitKinds :
          CreateGame(cred, w, k[1], k[2])
    \/ \E cred \in Creds, g \in GameIds, w \in {NULL, 0, 1} :
          \E b \in RandomBits(w) : EnterGame(cred, g, w, b)
    \/ \E cred \in Creds, g \in GameIds : GetGame(cred, g)
    \/ \E cred \in Creds, g \in GameIds, san \in SanInputs :
          \E f \in SeatOrders(cred, g) : MakeMove(cred, g, san, f)

\* ------------------------------------------------ requests with cookies
\* SpecCookies: requests as they arrive, each with a cookie: none, an unusable
\* one, or one the server signed for a session it handed out, with or without
\* an expiry, used before and after that expiry and before and after the
\* logout that deletes its Session.  The response of each request is recorded.
MaxCookieTime == 2

CookieBounds ==
    [sessions |-> MaxSessions, seconds |-> MaxCookieTime, plies |-> 0, countup_plies |-> 0,
     games |-> MaxGames]

\* The cookies a client can send: the server signs only tokens of sessions it
\* has handed out, with no expiry or one in the future of the login.
Cookies ==
    {NoCookie, [kind |-> "malformed", session |-> 0, expires |-> NULL]}
    \cup [kind : {"forged"}, session : 1..sessionSeq, expires : {NULL}]
    \cup [kind : {"signed"}, session : 1..sessionSeq,
          expires : {NULL} \cup (1..bound.seconds)]

InitCookies == InitTables /\ observe = TRUE /\ bound = CookieBounds

NextCookies ==
    \/ Wait
    \/ \E c \in Cookies, w \in BOOLEAN, k \in ConcGameKinds :
          CreateGame(credential(c, now), w, k[1], k[2])
    \/ \E c \in Cookies, g \in GameIds, w \in {NULL, 0, 1} :
          \E b \in RandomBits(w) : EnterGame(credential(c, now), g, w, b)
    \/ \E c \in Cookies, g \in GameIds : GetGame(credential(c, now), g)
    \/ \E c \in Cookies, l \in LoginInputs : Login(credential(c, now), l[1], l[2])
    \/ \E c \in Cookies : Logout(credential(c, now))

SpecCookies == InitCookies /\ [][NextCookies]_vars

\* ================================================================ claims
Concluded(g) == Game[g].time_ended # NULL

Started(g) == Game[g].time_started # NULL

\* The users' scores are the same after the step.
ScoresKept == \A u \in DOMAIN User : User'[u].score = User[u].score

\* The stored thinking time of a colour in match g, and the time since the
\* start that no stored ply accounts for.
Moved(g, is_white) ==
    time_moving_of(times(read_game(Game[g].game), Game[g].timeLimit),
                   Game[g].timeLimit, 1, is_white)

InFlight(g) == (now - Game[g].time_started) - (Moved(g, WHITE) + Moved(g, BLACK))

\* A started Countdown match with its limit whose clocks are running.
Running(g) ==
    /\ Started(g)
    /\ ~Concluded(g)
    /\ Game[g].timer = "Countdown"
    /\ Game[g].timeLimit # NULL
    /\ ~IsTerminal(read_game(Game[g].game))

Plies(g) == Len(Game[g].game.movetext)

Seats(g) == PlayersOf(Player, g)

\* C1: a Hospice run on a Concluded match changes neither the winner flag nor
\* any rating (the rating delta of a match is applied once).
C1_ConcludedKeepsWinnerAndRatings ==
    [][\A g \in DOMAIN Game :
          Concluded(g) =>
              /\ Game'[g].white_won = Game[g].white_won
              /\ ((\A h \in DOMAIN Game : Concluded(h)) => ScoresKept)]_vars

\* C2: once a match is Concluded its time_ended keeps the value the concluding
\* invocation wrote.
C2_TimeEndedKept ==
    [][\A g \in DOMAIN Game :
          Concluded(g) => Game'[g].time_ended = Game[g].time_ended]_vars

\* The step is the answer to a make_move on match g.
MakeMoveAnswered(g) ==
    /\ now' = now
    /\ txns' = txns
    /\ response'.op = "make_move"
    /\ response'.gameid = g

\* C3 as stated: a make_move on a match whose time_ended is set, whoever the
\* caller and whatever the move, is answered 400 "game is over" and changes no
\* row: the record, time_ended, the winner flag and the scores stay.
C3_EndedMatchRejectsEveryCaller ==
    [][\A g \in DOMAIN Game :
          (Concluded(g) /\ MakeMoveAnswered(g)) =>
              /\ response'.status = 400
              /\ response'.message = "game is over"
              /\ Game' = Game
              /\ User' = User
              /\ Player' = Player]_vars

\* C3: a make_move on a match whose time_ended is set changes no row (the
\* record, time_ended, the winner flag and the scores stay); a caller that has
\* a Session is answered 400 "game is over" whatever the move, a caller that
\* has none is answered 401 "No session?".
C3_EndedMatchRejectsMoves ==
    [][\A g \in DOMAIN Game :
          (Concluded(g) /\ MakeMoveAnswered(g)) =>
              /\ IF response'.caller # 0
                 THEN response'.status = 400 /\ response'.message = "game is over"
                 ELSE response'.status = 401 /\ response'.message = "No session?"
              /\ Game' = Game
              /\ User' = User
              /\ Player' = Player]_vars

C3_Witness ==
    \E g \in DOMAIN Game :
        /\ Concluded(g)
        /\ response.op = "make_move"
        /\ response.gameid = g
        /\ response.caller # 0
        /\ response.message = "game is over"

\* Black is to move in match g, black's thinking time (stored plies plus the
\* time in flight) has passed timeLimit and white has budget left.
BlackOutOfTime(g) ==
    /\ Running(g)
    /\ Plies(g) % 2 = 1
    /\ Moved(g, BLACK) + InFlight(g) > Game[g].timeLimit
    /\ Moved(g, WHITE) < Game[g].timeLimit

\* C4: a Countdown match in which it is black's turn, black is out of time and
\* white has budget left is concluded by a request as a win of white: winner
\* flag 1, +1 for the white seat's User and -1 for the black seat's.
C4_BlackForfeitsOnRead ==
    [][\A g \in DOMAIN Game :
          (BlackOutOfTime(g) /\ Concluded(g)') =>
              /\ Game'[g].white_won = 1
              /\ \A p \in Seats(g) :
                    p.user_id # NULL =>
                        User'[p.user_id].score =
                            User[p.user_id].score + (IF p.is_white THEN 1 ELSE -1)]_vars

\* The remaining time of both sides of match g as the reconciliation derives it.
Remaining(g) ==
    remaining(read_game(Game[g].game), Game[g].timeLimit, now - Game[g].time_started)

\* C5: the time in flight is taken from the side whose turn it is and from no
\* other: while the clock advances, after an odd number of plies only black's
\* remaining time falls, after an even number only white's.
C5_InFlightChargedToSideToMove ==
    [][\A g \in DOMAIN Game :
          (Running(g) /\ now' = now + 1) =>
              IF Plies(g) % 2 = 1
              THEN /\ Remaining(g)'.white = Remaining(g).white
                   /\ Remaining(g)'.black = Remaining(g).black - 1
              ELSE /\ Remaining(g)'.white = Remaining(g).white - 1
                   /\ Remaining(g)'.black = Remaining(g).black]_vars

\* C11: every match create_game persists has a timeLimit if its timer is
\* Countdown.
C11_CountdownHasTimeLimit ==
    \A g \in DOMAIN Game :
        Game[g].timer = "Countdown" => Game[g].timeLimit # NULL

\* C12: a read (get_game or get_games) whose response reports as Concluded a
\* match that the store held as not Concluded leaves the store with the
\* conclusion it reported: the same time_ended and winner flag.
C12_ReportedConclusionPersisted ==
    [][\A g \in DOMAIN Game :
          \A d \in response'.games :
              (/\ now' = now
               /\ ~Concluded(g)
               /\ d.game_id = g
               /\ d.time_ended # NULL) =>
                  /\ Game'[g].time_ended = d.time_ended
                  /\ Game'[g].white_won = d.white_won]_vars

\* The step is the answer to an enter_game.
EnterAnswered == now' = now /\ response'.op = "enter_game"

\* The caller of the request answered on the step holds a seat of match g: its
\* Session is a seat's Session, or it has a User and that is a seat's User.
CallerHoldsSeat(g) ==
    \E p \in Seats(g) :
        \/ p.session_id = response'.caller
        \/ /\ Session'[response'.caller].user_id # NULL
           /\ p.user_id = Session'[response'.caller].user_id

\* C13: enter_game answers 404 "game does not exist" for an unknown match, 401
\* "you are already in this game" exactly when the caller's Session or User is
\* that of a seat, and 401 "game cannot be joined" when both seats are taken
\* and the caller holds neither; none of the three adds a seat or changes the
\* match.
C13_EnterRejections ==
    [][EnterAnswered =>
          LET g == response'.gameid
          IN  /\ (g \notin DOMAIN Game) =>
                    /\ response'.status = 404
                    /\ response'.message = "game does not exist"
                    /\ Player' = Player /\ Game' = Game
              /\ (g \in DOMAIN Game /\ CallerHoldsSeat(g)) =>
                    /\ response'.status = 401
                    /\ response'.message = "you are already in this game"
                    /\ Player' = Player /\ Game' = Game
              /\ (g \in DOMAIN Game /\ ~CallerHoldsSeat(g)) =>
                    response'.message # "you are already in this game"
              /\ (g \in DOMAIN Game /\ ~CallerHoldsSeat(g)
                     /\ Cardinality(Seats(g)) = 2) =>
                    /\ response'.status = 401
                    /\ response'.message = "game cannot be joined"
                    /\ Player' = Player /\ Game' = Game]_vars

C13_Witness ==
    \E g \in DOMAIN Game :
        /\ Cardinality(Seats(g)) = 2
        /\ response.op = "enter_game"
        /\ response.gameid = g
        /\ response.message = "game cannot be joined"
        /\ \A p \in Seats(g) : p.session_id # response.caller
        /\ \E p \in Seats(g) : p.user_id # NULL /\ p.session_id = NULL

\* C14: an enter_game by a caller that holds no seat of a match with one seat
\* taken: with no preference it succeeds whichever colour the random bit chose
\* and the caller gets the colour that was free, so the two seats have opposite
\* colours; with the taken colour asked for explicitly it is answered 401
\* "colour is not available" and no seat is added.
C14_TakenColourFlipsOrFails ==
    [][EnterAnswered =>
          LET g == response'.gameid
              w == response'.wantsWhite
          IN  (g \in DOMAIN Game /\ ~CallerHoldsSeat(g) /\ Cardinality(Seats(g)) = 1) =>
                  IF w = NULL \/ ~HasPlayer(Player, g, w = 1)
                  THEN /\ response'.status = 204
                       /\ Cardinality(PlayersOf(Player', g)) = 2
                       /\ \A p \in PlayersOf(Player', g) \ Seats(g) :
                             /\ ~HasPlayer(Player, g, p.is_white)
                             /\ w # NULL => p.is_white = (w = 1)
                  ELSE /\ response'.status = 401
                       /\ response'.message = "colour is not available"
                       /\ Player' = Player
                       /\ Game' = Game]_vars

C14_Witness ==
    \E g \in DOMAIN Game :
        /\ response.op = "enter_game"
        /\ response.gameid = g
        /\ response.wantsWhite = NULL
        /\ response.status = 204
        /\ Cardinality(Seats(g)) = 2
        /\ \E p, q \in Seats(g) : p.is_white /\ ~q.is_white

\* The display name of the seat of a colour of match g after the step.
SeatName(g, is_white) ==
    LET p == PlayerOf(Player', g, is_white)
    IN  IF p.user_id # NULL THEN User[p.user_id].username ELSE "Anonymous"

\* The record a match g starts with: the names of its two seats, result "*",
\* no ply.
InitialRecord(g) ==
    [headers  |-> [White       |-> SeatName(g, WHITE),
                   Black       |-> SeatName(g, BLACK),
                   Result      |-> "*",
                   Termination |-> "unterminated"],
     movetext |-> <<>>]

\* C15: a match starts once.  time_started and the header of the record are
\* written on the step that takes the seats of the match from one to two: the
\* time of that step and the initial record.  On no later step (enter_game,
\* make_move, a read, login, logout, the clock) does time_started change, do
\* the names in the header change, or does a record that has moved on become
\* the initial record again.
C15_StartedOnce ==
    [][\A g \in DOMAIN Game :
          /\ (~Started(g) /\ Game'[g].time_started # NULL) =>
                /\ Cardinality(Seats(g)) = 1
                /\ Cardinality(PlayersOf(Player', g)) = 2
                /\ Game'[g].time_started = now
                /\ Game'[g].game = InitialRecord(g)
          /\ Started(g) =>
                /\ Game'[g].time_started = Game[g].time_started
                /\ Game'[g].game.headers.White = Game[g].game.headers.White
                /\ Game'[g].game.headers.Black = Game[g].game.headers.Black
                /\ (Game[g].game # InitialRecord(g) =>
                       Game'[g].game # InitialRecord(g))]_vars

C15_Witness ==
    \E g \in DOMAIN Game :
        /\ Started(g)
        /\ Game[g].time_started < now
        /\ Plies(g) >= 1
        /\ Game[g].game.headers.White # "Anonymous"
        /\ \E s \in DOMAIN Session : Session[s].user_id # NULL

\* C16: the lifecycle of a match only moves forward.  A match that has not
\* started has neither an end time nor a winner flag; a match that has started
\* stays started; a match that is concluded stays concluded.
C16_LifecycleForward ==
    [][/\ \A g \in DOMAIN Game' :
             Game'[g].time_started = NULL =>
                /\ Game'[g].time_ended = NULL
                /\ Game'[g].white_won = NULL
       /\ \A g \in DOMAIN Game :
             /\ Started(g) => Game'[g].time_started # NULL
             /\ Concluded(g) => Game'[g].time_ended # NULL]_vars

\* A concluded match with a request in flight that read it before its end and
\* has columns of its row to write.
C16_Witness ==
    \E g \in DOMAIN Game :
        /\ Started(g)
        /\ Concluded(g)
        /\ Game[g].white_won # NULL
        /\ \E t \in txns : t.w.game_id = g /\ DOMAIN t.w.cols # {}

\* The decoded record of match g and its last ply.
Record(g) == read_game(Game[g].game)
LastSan(g) == Record(g).mainline[Len(Record(g).mainline)].san

\* C17: a match whose record ends in a position that is terminal by the rules
\* of chess is concluded with the outcome of that position, whatever its timer
\* and whatever its clocks say: time_ended is set, the header says "normal"
\* and carries the result, and the winner flag is that of the side that mated,
\* or null for a draw.
C17_TerminalPositionConcludes ==
    \A g \in DOMAIN Game :
        (Started(g) /\ Plies(g) >= 1 /\ LastSan(g) \in {"mate", "draw"}) =>
            /\ Concluded(g)
            /\ Game[g].game.headers.Termination = "normal"
            /\ LastSan(g) = "mate" /\ PlyColor(Plies(g)) = WHITE =>
                  Game[g].white_won = 1 /\ Game[g].game.headers.Result = "1-0"
            /\ LastSan(g) = "mate" /\ PlyColor(Plies(g)) = BLACK =>
                  Game[g].white_won = 0 /\ Game[g].game.headers.Result = "0-1"
            /\ LastSan(g) = "draw" =>
                  Game[g].white_won = NULL /\ Game[g].game.headers.Result = "1/2-1/2"

\* White has mated in a Countdown match that was read again at a time when the
\* clock rule, had it been asked, would have given the match to black.
C17_Witness ==
    \E g \in DOMAIN Game :
        /\ Started(g)
        /\ Game[g].timer = "Countdown"
        /\ Plies(g) >= 1
        /\ LastSan(g) = "mate"
        /\ Game[g].white_won = 1
        /\ conclude_time(Game[g], Record(g), Game[g].time_ended).self.white_won = 0

\* The record of match g does not end in a terminal position.
NotTerminal(g) == Plies(g) = 0 \/ LastSan(g) \notin {"mate", "draw"}

\* C18: a started Countup match whose position is not terminal has neither an
\* end time nor a winner flag, however much time has passed and however often
\* it was read.
C18_CountupNeverForfeits ==
    \A g \in DOMAIN Game :
        (Game[g].timer = "Countup" /\ Started(g) /\ NotTerminal(g)) =>
            /\ Game[g].time_ended = NULL
            /\ Game[g].white_won = NULL

\* A Countup match with a stored timeLimit, read after more time than the
\* limit has passed and reported as still going on.
C18_Witness ==
    \E g \in DOMAIN Game :
        /\ Game[g].timer = "Countup"
        /\ Game[g].timeLimit # NULL
        /\ Started(g)
        /\ NotTerminal(g)
        /\ now - Game[g].time_started > Game[g].timeLimit
        /\ response.op \in {"get_game", "get_games"}
        /\ \E d \in response.games : d.game_id = g /\ d.time_ended = NULL

\* A step that answers a read: get_game or get_games, both of which call
\* hospice on each match they return.
ReadAnswered == now' = now /\ response'.op \in {"get_game", "get_games"}

\* C19: a read of a match that has not started leaves its row (time_ended, the
\* winner flag, the record) and every rating as they were, and reports the
\* match without an end time and without a winner.
C19_HospiceBeforeStartIsNoOp ==
    [][ReadAnswered =>
          \A g \in DOMAIN Game :
              ~Started(g) =>
                  /\ Game'[g] = Game[g]
                  /\ ScoresKept
                  /\ \A d \in response'.games :
                        d.game_id = g =>
                            /\ d.time_started = NULL
                            /\ d.time_ended = NULL
                            /\ d.white_won = NULL]_vars

\* A Countdown match of a logged-in creator, still without its second seat
\* when its timeLimit has passed, has been read.
C19_Witness ==
    \E g \in DOMAIN Game :
        /\ ~Started(g)
        /\ Game[g].timer = "Countdown"
        /\ Game[g].timeLimit # NULL
        /\ now >= Game[g].timeLimit
        /\ \E p \in Seats(g) : p.user_id # NULL
        /\ response.op \in {"get_game", "get_games"}
        /\ \E d \in response.games : d.game_id = g

\* The remaining time of both sides of match g by the rule of the
\* reconciliation: timeLimit minus the side's stored thinking time, and the
\* time in flight taken from the side whose turn it is.
SideRemaining(g) ==
    [white |-> (Game[g].timeLimit - Moved(g, WHITE))
               - (IF Plies(g) % 2 = 0 THEN InFlight(g) ELSE 0),
     black |-> (Game[g].timeLimit - Moved(g, BLACK))
               - (IF Plies(g) % 2 = 1 THEN InFlight(g) ELSE 0)]

\* Match g is in progress, its position is not terminal and, if it is played
\* against the clock, both sides have time left.
StillRunning(g) ==
    /\ Started(g)
    /\ ~Concluded(g)
    /\ NotTerminal(g)
    /\ Game[g].timer = "Countdown" =>
          /\ Game[g].timeLimit # NULL
          /\ SideRemaining(g).white > 0
          /\ SideRemaining(g).black > 0

\* C20: a read of a match in progress whose position is not terminal and in
\* which, if it is a Countdown match, both sides have time left changes
\* nothing: time_ended and the winner flag stay null, the record (header and
\* plies) and every rating are the same after the read.
C20_HospiceKeepsRunningMatch ==
    [][ReadAnswered =>
          \A g \in DOMAIN Game :
              StillRunning(g) =>
                  /\ Game'[g].time_ended = NULL
                  /\ Game'[g].white_won = Game[g].white_won
                  /\ Game'[g].game = Game[g].game
                  /\ ScoresKept]_vars

\* Match g is a started Countdown match with its limit: what the reconciliation
\* is defined on.
ValidCountdown(g) ==
    /\ Started(g)
    /\ Game[g].timer = "Countdown"
    /\ Game[g].timeLimit # NULL

\* The remaining time of both sides of match g as the reconciliation derives it
\* from the state after the step.
RemainingAfter(g) ==
    remaining(read_game(Game'[g].game), Game'[g].timeLimit, now' - Game'[g].time_started)

MovedAfter(g, is_white) ==
    time_moving_of(times(read_game(Game'[g].game), Game'[g].timeLimit),
                   Game'[g].timeLimit, 1, is_white)

\* The example of the reconciliation: timeLimit 600, white's first move made
\* 30 seconds after the start; white has 570 left and black 600.
ThinkingExample ==
    LET ply == stamped_ply([timer |-> "Countdown", timeLimit |-> 600], "move", 30)
        ts  == times([mainline |-> <<ply>>], 600)
    IN  /\ 600 - time_moving_of(ts, 600, 1, WHITE) = 570
        /\ 600 - time_moving_of(ts, 600, 1, BLACK) = 600

\* C22: in a Countdown match the thinking time of a ply, the difference
\* between its stored offset and the one before it (timeLimit for the first),
\* is the time that passed since the ply before it, and it is counted for the
\* side that played it: on the step that appends a ply the mover's thinking
\* time grows by the time that was in flight and the other side's stays, white
\* playing the odd plies and black the even ones.  The thinking times of the
\* two sides add up to the time of the last ply.
C22_ThinkingTimePerPly ==
    [][/\ ThinkingExample
       /\ \A g \in DOMAIN Game :
             (ValidCountdown(g) /\ Len(Game'[g].game.movetext) = Plies(g) + 1) =>
                 LET white_moves == (Plies(g) % 2 = 0)
                 IN  /\ MovedAfter(g, white_moves) = Moved(g, white_moves) + InFlight(g)
                     /\ MovedAfter(g, ~white_moves) = Moved(g, ~white_moves)
                     /\ MovedAfter(g, WHITE) + MovedAfter(g, BLACK)
                           = now - Game[g].time_started]_vars

\* Three plies, and both sides have spent thinking time.
C22_Witness ==
    \E g \in DOMAIN Game :
        /\ ValidCountdown(g)
        /\ Plies(g) >= 3
        /\ Moved(g, WHITE) >= 1
        /\ Moved(g, BLACK) >= 1

\* The stored record of match g after the step, decoded.
RecordAfter(g) == read_game(Game'[g].game)

\* The clock make_move computes for a ply it appends to match g now.
StampNow(g) ==
    IF Game[g].timer = "Countdown"
    THEN (Game[g].timeLimit * 2) - (now - Game[g].time_started)
    ELSE now - Game[g].time_started

CallerSeats(g) ==
    IF response'.caller = 0 THEN {}
    ELSE {p \in Seats(g) :
            \/ p.session_id = response'.caller
            \/ /\ Session[response'.caller].user_id # NULL
               /\ p.user_id = Session[response'.caller].user_id}

\* The step changes no row of a match, a seat or a user.
NothingWritten == Game' = Game /\ Player' = Player /\ User' = User

\* C24: make_move rejects without writing anything a caller that holds no
\* seat of the match, a move on a match that has not started, and a move by a
\* caller all of whose seats are of the colour that is not to move ("not your
\* turn"); a move answered "invalid move" writes nothing.  Every make_move
\* either writes nothing, or ends the match on time without a new ply, or is
\* answered "moved" and has appended exactly one ply, a legal one, to the
\* plies that were there; no ply follows a terminal position.
C24_MakeMoveRejections ==
    [][\A g \in DOMAIN Game :
          MakeMoveAnswered(g) =>
              /\ CallerSeats(g) = {} =>
                    /\ response'.status \in {400, 401}
                    /\ NothingWritten
              /\ ~Started(g) =>
                    /\ NothingWritten
                    /\ response'.caller # 0 =>
                          /\ response'.status = 400
                          /\ response'.message = "game has not started"
              /\ (/\ Started(g) /\ ~Concluded(g)
                  /\ CallerSeats(g) # {}
                  /\ \A p \in CallerSeats(g) : p.is_white # (Plies(g) % 2 = 0)) =>
                    /\ response'.status = 400
                    /\ response'.message = "not your turn"
                    /\ NothingWritten
              /\ response'.message = "invalid move" =>
                    /\ response'.status = 400
                    /\ NothingWritten
              /\ \/ NothingWritten
                 \/ /\ response'.message \in {"white ran out of time", "black ran out of time"}
                    /\ Game'[g].game.movetext = Game[g].game.movetext
                 \/ /\ response'.message = "moved"
                    /\ Len(Game'[g].game.movetext) = Plies(g) + 1
                    /\ \A i \in 1..Plies(g) :
                          Game'[g].game.movetext[i] = Game[g].game.movetext[i]
                    /\ Game'[g].game.movetext[Plies(g) + 1].san # "illegal"
                    /\ Plies(g) >= 1 => LastSan(g) \notin {"mate", "draw"}]_vars

\* A session that holds no seat of a match in play, with a ply made, has asked
\* to move in it and was told it is not playing.
C24_Witness ==
    \E g \in DOMAIN Game :
        /\ Started(g)
        /\ ~Concluded(g)
        /\ Plies(g) >= 1
        /\ response.op = "make_move"
        /\ response.gameid = g
        /\ response.status = 401
        /\ response.message = "you are not playing this game"
        /\ \A p \in Seats(g) : p.session_id # response.caller

\* Match g is a started Countdown match without its timeLimit.
LimitMissing(g) ==
    /\ Started(g)
    /\ Game[g].timer = "Countdown"
    /\ Game[g].timeLimit = NULL

\* The step answers a request that touches match g: a get_game or a make_move
\* on it by a caller that has a Session, or a get_games.
Touched(g) ==
    /\ now' = now
    /\ \/ response'.op = "get_games"
       \/ response'.op = "get_game" /\ response'.gameid = g
       \/ response'.op = "make_move" /\ response'.gameid = g /\ response'.caller # 0

\* C25: every request that touches a started Countdown match that has no
\* timeLimit ends in a server fault, and leaves time_ended, the winner flag,
\* the record and the ratings as they were.
C25_MissingLimitIsServerFault ==
    [][\A g \in DOMAIN Game :
          (LimitMissing(g) /\ Touched(g)) =>
              /\ response'.status = 500
              /\ NothingWritten]_vars

\* What authenticate_request returns for a request that carries cookie c now.
Resolved(c) == authenticate_request(Tables, credential(c, now))

Nobody == [user |-> NULL, session |-> NULL]

\* Cookie c was signed by the server and has not expired.
Usable(c) == c.kind = "signed" /\ (c.expires = NULL \/ c.expires > now)

\* C26: identity resolution.  A request without a cookie, with one that is not
\* a token, with one that is not signed by the server or with one whose expiry
\* is not after the current time resolves to no user and no session; so does a
\* signed, unexpired cookie whose token matches no Session row (the Session
\* was deleted at logout); any other cookie resolves to the Session of its
\* token and the User that Session is linked to, which may be none.
C26_IdentityResolution ==
    \A c \in Cookies :
        /\ ~Usable(c) => Resolved(c) = Nobody
        /\ (Usable(c) /\ c.session \notin DOMAIN Session) => Resolved(c) = Nobody
        /\ (Usable(c) /\ c.session \in DOMAIN Session) =>
              /\ Resolved(c).session = c.session
              /\ Resolved(c).user = Session[c.session].user_id

\* The Session of a cookie the server signed has been deleted, a request has
\* since been given a new Session, a Session is logged in, and so much time
\* has passed that a cookie has expired.
C26_Witness ==
    /\ now >= 1
    /\ \E s \in 1..sessionSeq :
          /\ s \notin DOMAIN Session
          /\ response.caller \in DOMAIN Session
          /\ response.caller > s
    /\ \E s \in DOMAIN Session : Session[s].user_id # NULL

\* The tables as the step leaves them.
TablesAfter == [User |-> User', Session |-> Session', Player |-> Player', Game |-> Game']

\* The step is a login that was accepted.
LoggedIn ==
    /\ response'.op = "do_login"
    /\ response'.message = "Signed you in! Redirecting..."

SeatsOf(s) == {p \in Player : p.session_id = s}

\* The step is a logout of a logged-in Session.
LoggedOut ==
    /\ response'.op = "do_logout"
    /\ response'.message = "success"

\* Session s is linked to no User and holds exactly one seat of match g.
GuestSeat(s, g, p) ==
    /\ s \in DOMAIN Session
    /\ Session[s].user_id = NULL
    /\ {q \in SeatsOf(s) : q.game_id = g} = {p}

\* C28: demote-on-logout.  A logout deletes the caller's Session when no seat
\* is bound to it and otherwise only clears its User link; it changes no other
\* Session and no seat.  So the Session reference of every seat names a
\* Session that exists; and a Session without a User link, a demoted one
\* included, is recognised as the holder of its seat: its make_move is never
\* answered 401, and in a match in play, when its colour is to move, its
\* make_move is refused only for the move itself.
C28_LogoutDemotes ==
    /\ [](\A p \in Player : p.session_id # NULL => p.session_id \in DOMAIN Session)
    /\ [][LoggedOut =>
             LET s == response'.caller
             IN  /\ s \in DOMAIN Session
                 /\ Session[s].user_id # NULL
                 /\ Player' = Player
                 /\ \A o \in DOMAIN Session \ {s} :
                        o \in DOMAIN Session' /\ Session'[o] = Session[o]
                 /\ DOMAIN Session' \subseteq DOMAIN Session
                 /\ IF SeatsOf(s) = {}
                    THEN s \notin DOMAIN Session'
                    ELSE s \in DOMAIN Session' /\ Session'[s].user_id = NULL
         ]_vars
    /\ [][\A g \in DOMAIN Game : \A p \in Player :
             (MakeMoveAnswered(g) /\ GuestSeat(response'.caller, g, p)) =>
                /\ \A f \in BOOLEAN :
                      get_player_team(Tables, g, response'.caller, NULL, f) = Bit(p.is_white)
                /\ response'.status # 401
                /\ (/\ Started(g)
                    /\ ~Concluded(g)
                    /\ (Len(Record(g).mainline) % 2 = 0) = p.is_white) =>
                       \/ response'.message = "invalid move"
                       \/ /\ response'.status = 200
                          /\ response'.message = "moved"
                          /\ Len(RecordAfter(g).mainline) = Len(Record(g).mainline) + 1
         ]_vars

\* A logged-in Session that holds a seat of a match in play, with its colour to
\* move, has just logged out and is still there, without its User link.
C28_Witness ==
    /\ response.op = "do_logout"
    /\ response.message = "success"
    /\ response.caller \in DOMAIN Session
    /\ Session[response.caller].user_id = NULL
    /\ \E p \in SeatsOf(response.caller) :
          /\ Started(p.game_id)
          /\ ~Concluded(p.game_id)
          /\ (Len(Record(p.game_id).mainline) % 2 = 0) = p.is_white

\* The step is a create_game or an enter_game that added a seat.
SeatTaken ==
    /\ response'.op \in {"create_game", "enter_game"}
    /\ Player' # Player

\* The User the Session of the request was linked to when the request came in.
UserBefore(s) == IF s \in DOMAIN Session THEN Session[s].user_id ELSE NULL

\* C29: every seat has exactly one of its User reference and its Session
\* reference set.  create_game and enter_game add one seat, bound to the
\* caller's User alone when the caller's Session is linked to one, and to the
\* caller's Session alone, new or not, when it is not; a login, a logout or a
\* change of password changes no seat.
C29_SeatHasOneOccupant ==
    /\ [](\A p \in Player : (p.user_id = NULL) # (p.session_id = NULL))
    /\ [][SeatTaken =>
             \E p \in Player' \ Player :
                /\ Player' = Player \cup {p}
                /\ response'.caller \in DOMAIN Session'
                /\ IF UserBefore(response'.caller) # NULL
                   THEN p.user_id = UserBefore(response'.caller) /\ p.session_id = NULL
                   ELSE p.user_id = NULL /\ p.session_id = response'.caller
         ]_vars
    /\ [][response'.op \in {"do_login", "do_logout", "user_update"} => Player' = Player]_vars

\* A seat taken by a logged-in caller, next to a seat taken by a guest whose
\* Session has logged in since.
C29_Witness ==
    \E p, q \in Player :
        /\ p.user_id # NULL
        /\ q.session_id \in DOMAIN Session
        /\ Session[q.session_id].user_id # NULL

\* The winner flag of match g is not the one it was before the step.
WinnerChanged(g) == g \in DOMAIN Game' /\ Game'[g].white_won # Game[g].white_won

\* Seat p of match g is bound to a Session alone, and that Session is linked
\* to User u.
LinkedGuestSeat(p, g, u) ==
    /\ p.game_id = g
    /\ p.user_id = NULL
    /\ p.session_id \in DOMAIN Session
    /\ Session[p.session_id].user_id = u
    /\ u # NULL

ConflictMessage ==
    "An account with this username already exists or you have provided invalid information."

\* The step is an answer of new_user.
SignupAnswered == response'.op = "new_user"

\* C31: a signup with a username that a User row already has is rejected and
\* persists nothing: whoever asks, the User table stays as it is, and for a
\* guest that gives an address that parses (or none) the answer is the 400 of
\* the unique index.  A signup changes no existing row (username, password,
\* address, rating) and adds at most one row, with a username no row had; so
\* no two User rows ever have the same username.
C31_DuplicateSignupRejected ==
    /\ [](\A u, v \in DOMAIN User : User[u].username = User[v].username => u = v)
    /\ [](\A s \in DOMAIN Session, n \in SignupNames, pw \in Passwords, e \in Emails :
             (\E u \in DOMAIN User : User[u].username = n) =>
                LET r == new_user(Tables, s, n, pw, e)
                IN  /\ ~r.accept
                    /\ r.User = User
                    /\ (Session[s].user_id = NULL /\ e # "not an address") =>
                          r.status = 400 /\ r.message = ConflictMessage)
    /\ [][SignupAnswered =>
             /\ \A u \in DOMAIN User : u \in DOMAIN User' /\ User'[u] = User[u]
             /\ response'.message = ConflictMessage =>
                   response'.status = 400 /\ User' = User
             /\ User' # User =>
                   /\ response'.message = "Please log into your new account."
                   /\ Cardinality(DOMAIN User' \ DOMAIN User) = 1
                   /\ \A n \in DOMAIN User' \ DOMAIN User : \A u \in DOMAIN User :
                         User'[n].username # User[u].username
         ]_vars

\* A signup has just been refused for its username, after an account was made
\* and an account changed its password.
C31_Witness ==
    /\ response.op = "new_user"
    /\ response.status = 400
    /\ response.message = ConflictMessage
    /\ Cardinality(DOMAIN User) = MaxUsers
    /\ \E u \in DOMAIN User : User[u].password # "ha"

\* The rating point seat p has earned in its match: none while the match has
\* no winner, and none for a seat that is bound to a Session.
SeatDelta(p) ==
    IF Game[p.game_id].white_won = NULL THEN 0
    ELSE IF Game[p.game_id].white_won = Bit(p.is_white) THEN 1 ELSE -1

RECURSIVE SumDeltas(_)
SumDeltas(seats) ==
    IF seats = {} THEN 0
    ELSE LET p == CHOOSE q \in seats : TRUE
         IN  SeatDelta(p) + SumDeltas(seats \ {p})

\* The sum of the rating deltas of the matches User u has a seat in.
Owed(u) == SumDeltas({p \in Player : p.user_id = u})

\* Both matches are concluded and no request is in flight.
BothConcluded ==
    /\ txns = {}
    /\ \A g \in RatedGameIds : g \in DOMAIN Game /\ Game[g].time_ended # NULL

\* C32 as stated: matches are independent under concurrency.  When the two
\* matches of a User have been concluded, by requests that ran one after the
\* other or at the same time, the User's rating is the initial rating plus the
\* sum of the deltas of the two matches.
C32_MatchesAreIndependent ==
    BothConcluded => \A u \in DOMAIN User : User[u].score = DefaultScore + Owed(u)

\* The step is the answer to a make_move on match g that was not refused for
\* the caller, the turn or the move.
MoveTaken(g) ==
    /\ MakeMoveAnswered(g)
    /\ response'.status = 200

\* C33 as stated: in a Countdown match in progress, a make_move made when the
\* remaining time of either side, the time in flight taken from the side to
\* move, is not above zero appends no ply; and unless it is refused for the
\* caller, the turn or the move, it leaves the match concluded by time
\* forfeiture.
C33_LateMoveForfeits ==
    [][\A g \in DOMAIN Game :
          (/\ Running(g)
           /\ MakeMoveAnswered(g)
           /\ (SideRemaining(g).white <= 0 \/ SideRemaining(g).black <= 0)) =>
              /\ Len(RecordAfter(g).mainline) = Plies(g)
              /\ MoveTaken(g) =>
                    /\ Game'[g].time_ended # NULL
                    /\ RecordAfter(g).headers.Termination = "time forefit"]_vars

\* Neither side of match g has time left, the time in flight taken from the
\* side to move.
BothOutOfTime(g) ==
    /\ Running(g)
    /\ SideRemaining(g).white <= 0
    /\ SideRemaining(g).black <= 0

\* C34: when neither side of a Countdown match in progress has time left,
\* white's forfeiture comes first.  A request that changes the row of the
\* match concludes it at the current time as a win of black: winner flag 0,
\* result 0-1, termination by time, no ply added; and a get_game, and a
\* make_move that is not refused for the caller, the turn or the move, do
\* conclude it.
C34_WhiteForfeitsFirst ==
    [][\A g \in DOMAIN Game :
          (BothOutOfTime(g) /\ now' = now) =>
              /\ Game'[g] # Game[g] =>
                    /\ Game'[g].white_won = 0
                    /\ Game'[g].time_ended = now
                    /\ RecordAfter(g).headers.Result = "0-1"
                    /\ RecordAfter(g).headers.Termination = "time forefit"
                    /\ Len(RecordAfter(g).mainline) = Plies(g)
              /\ (/\ response'.op = "get_game"
                  /\ response'.gameid = g
                  /\ response'.status = 200) => Game'[g].time_ended # NULL
              /\ MoveTaken(g) => Game'[g].time_ended # NULL]_vars

\* A match whose two sides had no time from the start has just been read and
\* is concluded as a win of black.
C34_Witness ==
    /\ response.op = "get_game"
    /\ response.status = 200
    /\ \E g \in DOMAIN Game :
          /\ response.gameid = g
          /\ Game[g].timeLimit = 0
          /\ Game[g].time_ended # NULL
          /\ Game[g].white_won = 0
          /\ Record(g).headers.Result = "0-1"

\* Seat p is held by the caller of the request just answered: it is bound to
\* the caller's Session, or to the User that Session is linked to.
HeldByCaller(p) ==
    \/ p.session_id = response'.caller
    \/ /\ p.user_id # NULL
       /\ response'.caller \in DOMAIN Session
       /\ p.user_id = Session[response'.caller].user_id

\* C35: plies alternate between the seats, white first.  Every step that
\* makes the record of a match longer is a make_move that adds one ply to the
\* plies that were there; the caller holds the seat of the colour of that ply,
\* white for an odd ply and black for an even one, by its Session or by its
\* User.
C35_PliesAlternateBySeat ==
    [][\A g \in DOMAIN Game :
          (Started(g) /\ Len(RecordAfter(g).mainline) # Plies(g)) =>
              /\ MakeMoveAnswered(g)
              /\ Len(RecordAfter(g).mainline) = Plies(g) + 1
              /\ SubSeq(RecordAfter(g).mainline, 1, Plies(g)) = Record(g).mainline
              /\ \E p \in Seats(g) :
                    /\ p.is_white = ((Plies(g) + 1) % 2 = 1)
                    /\ HeldByCaller(p)]_vars

\* Black's seat is bound to a User, and the Session of that User has just
\* made the second ply of the match.
C35_Witness ==
    /\ response.op = "make_move"
    /\ response.message = "moved"
    /\ \E g \in DOMAIN Game : \E p \in Seats(g) :
          /\ response.gameid = g
          /\ Plies(g) = 2
          /\ ~p.is_white
          /\ p.user_id # NULL
          /\ response.caller \in DOMAIN Session
          /\ Session[response.caller].user_id = p.user_id

\* The clock stored with ply i of match g.
Stamp(g, i) == Record(g).mainline[i].clock

\* The thinking time ply i stands for: the fall of the offset against
\* timeLimit since the ply before, since timeLimit for the first ply.
PlyDuration(g, i) ==
    (IF i = 1 THEN Game[g].timeLimit ELSE Stamp(g, i - 1) - Game[g].timeLimit)
    - (Stamp(g, i) - Game[g].timeLimit)

HeldFor(q, u) ==
    \/ q.user_id = u
    \/ /\ q.session_id \in DOMAIN Session
       /\ Session[q.session_id].user_id = u

\* C37: no account is on both sides of a match: there is no match with one
\* seat bound to a User and the other seat bound to the same User or to a
\* Session that is linked to that User.
C37_NoAccountOnBothSides ==
    \A g \in DOMAIN Game :
       \A p, q \in Seats(g) :
          (p # q /\ p.user_id # NULL) => ~HeldFor(q, p.user_id)

\* The step is a get_game of match g that was answered with the match.
GameRead(g) ==
    /\ now' = now
    /\ txns' = txns
    /\ response'.op = "get_game"
    /\ response'.gameid = g
    /\ response'.status = 200

\* Hospice, run on match g now, finds a side without time and concludes the
\* match: a get_game of g changes the match.
ForfeitDue(g) ==
    /\ g \in DOMAIN Game
    /\ Running(g)
    /\ (Remaining(g).white <= 0 \/ Remaining(g).black <= 0)

\* The clock and the readers of SpecForfeit.  Time keeps passing, up to the
\* last second the specification follows, and every match keeps being read:
\* weak fairness of the clock, and weak fairness of the reads of each match,
\* the latter with its enabling condition written out (a read is a step of
\* its own exactly when it changes the match).
FairForfeit ==
    /\ WF_vars(Tick)
    /\ \A g \in GameIds : ([]<>(~ForfeitDue(g)) \/ []<><<GameRead(g)>>_vars)

SpecForfeit == InitForfeit /\ [][NextForfeit]_vars /\ FairForfeit

\* A side of match g has no time left, the time in flight taken from the side
\* to move.
OutOfTime(g) == SideRemaining(g).white <= 0 \/ SideRemaining(g).black <= 0

\* A started Countdown match in play is Concluded in the end.
ForfeitInTheEnd ==
    \A g \in GameIds :
       (g \in DOMAIN Game /\ Running(g)) ~> (g \in DOMAIN Game /\ Concluded(g))

\* A read of, or a move on, a started Countdown match in play with a side out
\* of time leaves the match Concluded.
ForfeitAtFirstRequest ==
    [][\A g \in DOMAIN Game :
          (/\ Running(g)
           /\ OutOfTime(g)
           /\ (GameRead(g) \/ MoveTaken(g))) => Game'[g].time_ended # NULL]_vars

\* C38: time forfeiture needs no timer.  While time keeps passing and the
\* match keeps being read, a started Countdown match in play does not stay in
\* play for ever: it is Concluded in the end, and it is Concluded by the first
\* read or move made after the remaining time of a side has reached zero.
C38_ForfeitWithoutTimer == ForfeitInTheEnd /\ ForfeitAtFirstRequest

\* Request t is an enter_game whose seat was taken after it read the match.
LostSeatRace(t) ==
    /\ t.op = "enter_game"
    /\ \E p \in t.w.players : HasPlayer(Player, p.game_id, p.is_white)

\* C6: of two concurrent enter_game requests for the same open seat one gets
\* the seat, and the other, which finds the seat taken, is answered 401 "colour
\* is not available" or, if it asked for no colour, is seated on the other
\* colour.
C6_SeatRaceLoserSeesSeatTaken ==
    [][\A t \in txns :
          (LostSeatRace(t) /\ t \notin txns') =>
              \/ /\ response'.status = 401
                 /\ response'.message = "colour is not available"
              \/ /\ t.wantsWhite = NULL
                 /\ response'.status = 204
                 /\ \E p \in Player' \ Player :
                       /\ p.game_id = t.gameid
                       /\ p.session_id = t.caller
                       /\ \A q \in t.w.players : p.is_white # q.is_white]_vars

\* C7: concurrent requests on one match behave as if run one after another:
\* every ply that a make_move reported as played is in the stored record, at
\* the place it was accepted for, so no two different moves were accepted as
\* the same ply.
C7_AcceptedMovesRemain ==
    \A a \in accepted :
        /\ Game[a.gameid].game # NoRecord
        /\ Len(Game[a.gameid].game.movetext) >= a.ply
        /\ Game[a.gameid].game.movetext[a.ply].san = a.san

\* The User bound to a seat of match g, NULL for a seat bound to a Session.
SeatUser(g, is_white) == PlayerOf(Player, g, is_white).user_id

\* What the step on which the winner flag of match g changes owes user u.
ScoreDelta(g, u) ==
    IF Game'[g].white_won = Game[g].white_won THEN 0
    ELSE LET winner == SeatUser(g, Game'[g].white_won = 1)
             loser  == SeatUser(g, Game'[g].white_won # 1)
         IN  (IF winner = u THEN 1 ELSE 0) - (IF loser = u THEN 1 ELSE 0)

RECURSIVE SumDelta(_, _)
SumDelta(gs, u) ==
    IF gs = {} THEN 0
    ELSE LET g == CHOOSE x \in gs : TRUE
         IN  ScoreDelta(g, u) + SumDelta(gs \ {g}, u)

\* C8: the step on which the winner flag of a match changes gives +1 to the
\* User of the winning seat and -1 to the User of the losing seat, and changes no
\* other score (a seat bound to a Session has no User); a step on which no
\* winner flag changes, a draw included, changes no score.
C8_RatingFollowsNewWinner ==
    [][\A u \in DOMAIN User :
          User'[u].score = User[u].score + SumDelta(DOMAIN Game, u)]_vars

C8_Witness ==
    \E g \in DOMAIN Game :
        /\ Concluded(g)
        /\ Game[g].white_won = 1
        /\ SeatUser(g, WHITE) # NULL
        /\ User[SeatUser(g, WHITE)].score = DefaultScore + 1
        /\ SeatUser(g, BLACK) = NULL
        /\ \A u \in DOMAIN User : u # SeatUser(g, WHITE) => User[u].score = DefaultScore

\* C9: in every state, the states between concurrent enter_game requests
\* included, a match has at most one Player row per colour and at most two
\* Player rows.
C9_OneSeatPerColour ==
    \A g \in DOMAIN Game :
        /\ \A c \in BOOLEAN :
              Cardinality({p \in Seats(g) : p.is_white = c}) <= 1
        /\ Cardinality(Seats(g)) <= 2

C9_Witness ==
    \E g \in DOMAIN Game :
        /\ Cardinality(Seats(g)) = 2
        /\ response.op = "enter_game"
        /\ response.gameid = g
        /\ response.status = 500

\* C10: in every state a match with two Player rows is started (time_started
\* is set and the record has its headers), and a match with fewer has no
\* time_started.
C10_TwoSeatsIffStarted ==
    \A g \in DOMAIN Game :
        IF Cardinality(Seats(g)) >= 2
        THEN /\ Game[g].time_started # NULL
             /\ Game[g].game # NoRecord
             /\ {"White", "Black", "Result", "Termination"} \subseteq
                    DOMAIN Game[g].game.headers
        ELSE Game[g].time_started = NULL

C10_Witness ==
    \E g \in DOMAIN Game :
        /\ Cardinality(Seats(g)) = 2
        /\ Game[g].time_started = now
        /\ Game[g].game.movetext = <<>>
        /\ response.op = "enter_game"
        /\ response.gameid = g
        /\ response.status = 204
        /\ txns # {}

=============================================================================
